---- MODULE Spec2Model ----
(***************************************************************************)
(* A model of the Markdown <-> DOCX conversion core of md_extension:       *)
(* the block parser (parseMarkdownBlocks), the diagram marker codec        *)
(* (encodeDiagramMarker / buildDiagramBlock), the diagram renderer         *)
(* (renderDiagramToPngBuffer), the document assembler (markdownToDocx)     *)
(* and the reverse assembler (htmlToMarkdown).                             *)
(*                                                                         *)
(* Text is modelled by TLA+ strings; a character is a string of length 1.  *)
(* The character ~ stands for the backquote, which a TLA+ string cannot    *)
(* hold.                                                                   *)
(***************************************************************************)
EXTENDS Integers, Sequences, FiniteSets, TLC

VARIABLES
    task,        \* which entry point this behaviour runs
    pc,          \* position inside the running entry point
    lines,       \* parseMarkdownBlocks: content.split('\n')
    i,           \* parseMarkdownBlocks: the main loop's line index (0-based)
    blocks,      \* parseMarkdownBlocks: the blocks pushed so far
    steps,       \* parseMarkdownBlocks: one record per main-loop iteration executed
    sessions,    \* the browser sessions: the document's (or caller's) and the renderer's own
    children,    \* markdownToDocx: the document elements pushed so far
    blockIdx,    \* markdownToDocx: index of the block being processed (1-based)
    asm,         \* markdownToDocx: locals and the session it launched
    rnd,         \* renderDiagramToPngBuffer: locals of the running call
    log,         \* ordered record of the calls made on the collaborators
    codec,       \* marker codec: input and result of the last call
    md,          \* htmlToMarkdown: input html and resulting Markdown
    inl,         \* parseInlineMarkdownSegments: text, lastIndex and segments
    probe,       \* getImageDimensions: the buffer and the result
    scale        \* scaleToMaxWidth: the arguments and the result

vars == <<task, pc, lines, i, blocks, steps, sessions, children, blockIdx, asm, rnd,
          log, codec, md, inl, probe, scale>>

--------------------------------------------------------------------------
(* Strings *)

Ch(s, k) == SubSeq(s, k, k)

Max(S) == CHOOSE x \in S : \A y \in S : y <= x

Min(S) == CHOOSE x \in S : \A y \in S : x <= y

StartsWith(s, p) == Len(s) >= Len(p) /\ SubSeq(s, 1, Len(p)) = p

EndsWith(s, p) == Len(s) >= Len(p) /\ SubSeq(s, Len(s) - Len(p) + 1, Len(s)) = p

StartsWithAt(s, p, k) == k + Len(p) - 1 <= Len(s) /\ SubSeq(s, k, k + Len(p) - 1) = p

Includes(s, p) == \E k \in 1..Len(s) : StartsWithAt(s, p, k)

\* String.prototype.indexOf from position k (1-based); 0 when absent.
IndexOfFrom(s, p, k) ==
    LET hits == {j \in k..Len(s) : StartsWithAt(s, p, j)}
    IN  IF hits = {} THEN 0 ELSE Min(hits)

\* The characters the regular expression class \s matches, of those modelled.
IsSpace(c) == c \in {" ", "\t", "\n", "\r"}

IsDigit(c) == c \in {"0", "1", "2", "3", "4", "5", "6", "7", "8", "9"}

TrimEnd(s) ==
    LET ks == {k \in 1..Len(s) : ~IsSpace(Ch(s, k))}
    IN  IF ks = {} THEN "" ELSE SubSeq(s, 1, Max(ks))

TrimStart(s) ==
    LET ks == {k \in 1..Len(s) : ~IsSpace(Ch(s, k))}
    IN  IF ks = {} THEN "" ELSE SubSeq(s, Min(ks), Len(s))

Trim(s) == TrimStart(TrimEnd(s))

\* A join that leaves the separator out.
JoinNoSeparator(ss, sep) == IF Len(ss) = 0 THEN "" ELSE ss[1] \o ss[Len(ss)]

RECURSIVE Join(_, _)
Join(ss, sep) ==
    IF Len(ss) = 0 THEN ""
    ELSE IF Len(ss) = 1 THEN ss[1]
    ELSE Join(SubSeq(ss, 1, Len(ss) \div 2), sep) \o sep
             \o Join(SubSeq(ss, Len(ss) \div 2 + 1, Len(ss)), sep)

\* String.prototype.split(sep) for a separator of one character.
RECURSIVE Split(_, _)
Split(s, sep) ==
    LET k == IndexOfFrom(s, sep, 1)
    IN  IF k = 0 THEN <<s>>
        ELSE <<SubSeq(s, 1, k - 1)>> \o Split(SubSeq(s, k + 1, Len(s)), sep)

RECURSIVE ToLowerCase(_)
ToLowerCase(s) ==
    IF s = "" THEN ""
    ELSE LET c == Ch(s, 1)
             up == "ABCDEFGHIJKLMNOPQRSTUVWXYZ"
             lo == "abcdefghijklmnopqrstuvwxyz"
             k == IndexOfFrom(up, c, 1)
         IN  (IF k = 0 THEN c ELSE Ch(lo, k)) \o ToLowerCase(Tail(s))

--------------------------------------------------------------------------
(* Bytes, base64 and JSON: the library calls the marker codec is made of *)

\* A TLA+ string cannot hold a backquote: throughout, the character ~ stands
\* for the backquote (code 96), and the tilde itself is not modelled.
Tick == "~"

Fence == "~~~"

\* The printable ASCII characters, in code order from 32 (space) to 125 (}).
AsciiTable ==
    " !\"#$%&'()*+,-./0123456789:;<=>?@ABCDEFGHIJKLMNOPQRSTUVWXYZ[\\]^_~abcdefghijklmnopqrstuvwxyz{|}"

\* What a byte that is no modelled character decodes to (U+FFFD in the code).
Replacement == "\f"

CharCodeTable ==
    [c \in {Ch(AsciiTable, k) : k \in 1..Len(AsciiTable)} |->
        31 + IndexOfFrom(AsciiTable, c, 1)]

CharCode(c) ==
    IF c = "\n" THEN 10
    ELSE IF c = "\t" THEN 9
    ELSE IF c = "\r" THEN 13
    ELSE IF c \in DOMAIN CharCodeTable THEN CharCodeTable[c]
    ELSE 255

CodeChar(n) ==
    IF n = 10 THEN "\n"
    ELSE IF n = 9 THEN "\t"
    ELSE IF n = 13 THEN "\r"
    ELSE IF n >= 32 /\ n <= 125 THEN Ch(AsciiTable, n - 31)
    ELSE Replacement

\* Buffer.from(s, 'utf-8'): one byte per character for the characters modelled.
RECURSIVE Utf8Bytes(_)
Utf8Bytes(s) ==
    IF s = "" THEN <<>> ELSE <<CharCode(Ch(s, 1))>> \o Utf8Bytes(Tail(s))

\* buffer.toString('utf-8')
RECURSIVE Utf8String(_)
Utf8String(bytes) ==
    IF bytes = <<>> THEN "" ELSE CodeChar(Head(bytes)) \o Utf8String(Tail(bytes))

Base64Alphabet ==
    "ABCDEFGHIJKLMNOPQRSTUVWXYZabcdefghijklmnopqrstuvwxyz0123456789+/"

Base64Value ==
    [c \in {Ch(Base64Alphabet, k) : k \in 1..Len(Base64Alphabet)} |->
        IndexOfFrom(Base64Alphabet, c, 1) - 1]

B64(n) == Ch(Base64Alphabet, n + 1)

\* buffer.toString('base64'): 3 bytes to 4 characters, padded with '='.
RECURSIVE Base64Encode(_)
Base64Encode(bytes) ==
    IF Len(bytes) = 0 THEN ""
    ELSE IF Len(bytes) = 1 THEN
        B64(bytes[1] \div 4) \o B64((bytes[1] % 4) * 16) \o "=="
    ELSE IF Len(bytes) = 2 THEN
        B64(bytes[1] \div 4) \o B64((bytes[1] % 4) * 16 + bytes[2] \div 16)
            \o B64((bytes[2] % 16) * 4) \o "="
    ELSE
        B64(bytes[1] \div 4) \o B64((bytes[1] % 4) * 16 + bytes[2] \div 16)
            \o B64((bytes[2] % 16) * 4 + bytes[3] \div 64) \o B64(bytes[3] % 64)
            \o Base64Encode(SubSeq(bytes, 4, Len(bytes)))

\* The 6-bit values of a base64 text: characters outside the alphabet are
\* skipped and the first '=' ends the data.
RECURSIVE Base64Sextets(_)
Base64Sextets(s) ==
    IF s = "" \/ Ch(s, 1) = "=" THEN <<>>
    ELSE IF Ch(s, 1) \in DOMAIN Base64Value
         THEN <<Base64Value[Ch(s, 1)]>> \o Base64Sextets(Tail(s))
         ELSE Base64Sextets(Tail(s))

RECURSIVE SextetsToBytes(_)
SextetsToBytes(q) ==
    IF Len(q) < 2 THEN <<>>
    ELSE IF Len(q) = 2 THEN <<q[1] * 4 + q[2] \div 16>>
    ELSE IF Len(q) = 3 THEN
        <<q[1] * 4 + q[2] \div 16, (q[2] % 16) * 16 + q[3] \div 4>>
    ELSE
        <<q[1] * 4 + q[2] \div 16, (q[2] % 16) * 16 + q[3] \div 4,
          (q[3] % 4) * 64 + q[4]>> \o SextetsToBytes(SubSeq(q, 5, Len(q)))

\* Buffer.from(payload, 'base64'): never throws.
Base64Decode(s) == SextetsToBytes(Base64Sextets(s))

\* JSON.stringify of a string value.
RECURSIVE JsonEscape(_)
JsonEscape(s) ==
    IF s = "" THEN ""
    ELSE LET c == Ch(s, 1)
         IN  (IF c = "\"" THEN "\\\""
              ELSE IF c = "\\" THEN "\\\\"
              ELSE IF c = "\n" THEN "\\n"
              ELSE IF c = "\t" THEN "\\t"
              ELSE IF c = "\r" THEN "\\r"
              ELSE c) \o JsonEscape(Tail(s))

JsonQuote(s) == "\"" \o JsonEscape(s) \o "\""

\* JSON values: k is the kind, s a string's text, m an object's members in
\* source order (each <<key, value>>).
JStr(s) == [k |-> "string", s |-> s, m |-> <<>>]

JAtom(k) == [k |-> k, s |-> "", m |-> <<>>]

JObj(m) == [k |-> "object", s |-> "", m |-> m]

JFail == [ok |-> FALSE, v |-> JAtom("null"), p |-> 0]

JOk(v, p) == [ok |-> TRUE, v |-> v, p |-> p]

RECURSIVE SkipWs(_, _)
SkipWs(s, p) ==
    IF p <= Len(s) /\ Ch(s, p) \in {" ", "\t", "\n", "\r"} THEN SkipWs(s, p + 1) ELSE p

RECURSIVE SkipDigits(_, _)
SkipDigits(s, p) ==
    IF p <= Len(s) /\ IsDigit(Ch(s, p)) THEN SkipDigits(s, p + 1) ELSE p

HexDigits == "0123456789abcdef"

HexValue(c) == IndexOfFrom(HexDigits, ToLowerCase(c), 1) - 1

\* The characters of a JSON string from position p (after the opening quote).
RECURSIVE ParseJsonChars(_, _, _)
ParseJsonChars(s, p, acc) ==
    IF p > Len(s) THEN JFail
    ELSE LET c == Ch(s, p) IN
      IF c = "\"" THEN JOk(JStr(acc), p + 1)
      ELSE IF c \in {"\n", "\t", "\r", "\f"} THEN JFail
      ELSE IF c # "\\" THEN ParseJsonChars(s, p + 1, acc \o c)
      ELSE IF p + 1 > Len(s) THEN JFail
      ELSE LET e == Ch(s, p + 1) IN
        IF e \in {"\"", "\\", "/"} THEN ParseJsonChars(s, p + 2, acc \o e)
        ELSE IF e = "n" THEN ParseJsonChars(s, p + 2, acc \o "\n")
        ELSE IF e = "t" THEN ParseJsonChars(s, p + 2, acc \o "\t")
        ELSE IF e = "r" THEN ParseJsonChars(s, p + 2, acc \o "\r")
        ELSE IF e \in {"b", "f"} THEN ParseJsonChars(s, p + 2, acc \o Replacement)
        ELSE IF e = "u" /\ p + 5 <= Len(s)
                /\ \A j \in 2..5 : HexValue(Ch(s, p + j)) >= 0
             THEN ParseJsonChars(s, p + 6, acc \o CodeChar(
                      HexValue(Ch(s, p + 2)) * 4096 + HexValue(Ch(s, p + 3)) * 256
                      + HexValue(Ch(s, p + 4)) * 16 + HexValue(Ch(s, p + 5))))
        ELSE JFail

ParseJsonNumber(s, p) ==
    LET q == IF p <= Len(s) /\ Ch(s, p) = "-" THEN p + 1 ELSE p
        r == SkipDigits(s, q)
        intOk == r > q /\ (Ch(s, q) # "0" \/ r = q + 1)
        f == IF r <= Len(s) /\ Ch(s, r) = "." THEN SkipDigits(s, r + 1) ELSE r
        fracOk == f = r \/ f > r + 1
    IN  IF intOk /\ fracOk THEN JOk(JAtom("number"), f) ELSE JFail

RECURSIVE ParseJsonValue(_, _)
RECURSIVE ParseJsonMembers(_, _, _)
RECURSIVE ParseJsonElements(_, _)

\* The value whose first character is at position p.
ParseJsonToken(s, p) ==
    IF Ch(s, p) = "\"" THEN ParseJsonChars(s, p + 1, "")
    ELSE IF Ch(s, p) = "{" THEN
        (IF SkipWs(s, p + 1) <= Len(s) /\ Ch(s, SkipWs(s, p + 1)) = "}"
         THEN JOk(JObj(<<>>), SkipWs(s, p + 1) + 1)
         ELSE ParseJsonMembers(s, p + 1, <<>>))
    ELSE IF Ch(s, p) = "[" THEN
        (IF SkipWs(s, p + 1) <= Len(s) /\ Ch(s, SkipWs(s, p + 1)) = "]"
         THEN JOk(JAtom("array"), SkipWs(s, p + 1) + 1)
         ELSE ParseJsonElements(s, p + 1))
    ELSE IF StartsWithAt(s, "true", p) THEN JOk(JAtom("boolean"), p + 4)
    ELSE IF StartsWithAt(s, "false", p) THEN JOk(JAtom("boolean"), p + 5)
    ELSE IF StartsWithAt(s, "null", p) THEN JOk(JAtom("null"), p + 4)
    ELSE ParseJsonNumber(s, p)

\* The blanks after a value r.
ParseJsonTrail(s, r) == IF r.ok THEN JOk(r.v, SkipWs(s, r.p)) ELSE JFail

\* One JSON value starting at or after position p0, with surrounding blanks.
ParseJsonValue(s, p0) ==
    IF SkipWs(s, p0) > Len(s) THEN JFail
    ELSE ParseJsonTrail(s, ParseJsonToken(s, SkipWs(s, p0)))

\* After "key": value, the closing brace or a comma and more members.
ParseJsonMemberEnd(s, key, val, acc) ==
    IF ~val.ok \/ val.p > Len(s) THEN JFail
    ELSE IF Ch(s, val.p) = "}"
         THEN JOk(JObj(Append(acc, <<key.v.s, val.v>>)), val.p + 1)
    ELSE IF Ch(s, val.p) = ","
         THEN ParseJsonMembers(s, val.p + 1, Append(acc, <<key.v.s, val.v>>))
    ELSE JFail

\* After a key, the colon and the value.
ParseJsonMemberValue(s, key, acc) ==
    IF ~key.ok THEN JFail
    ELSE IF SkipWs(s, key.p) > Len(s) \/ Ch(s, SkipWs(s, key.p)) # ":" THEN JFail
    ELSE ParseJsonMemberEnd(s, key, ParseJsonValue(s, SkipWs(s, key.p) + 1), acc)

\* "key": value pairs up to the closing brace.
ParseJsonMembers(s, p0, acc) ==
    IF SkipWs(s, p0) > Len(s) \/ Ch(s, SkipWs(s, p0)) # "\"" THEN JFail
    ELSE ParseJsonMemberValue(s, ParseJsonChars(s, SkipWs(s, p0) + 1, ""), acc)

\* After an array element, the closing bracket or a comma and more elements.
ParseJsonElementEnd(s, val) ==
    IF ~val.ok \/ val.p > Len(s) THEN JFail
    ELSE IF Ch(s, val.p) = "]" THEN JOk(JAtom("array"), val.p + 1)
    ELSE IF Ch(s, val.p) = "," THEN ParseJsonElements(s, val.p + 1)
    ELSE JFail

\* Array elements up to the closing bracket.
ParseJsonElements(s, p) == ParseJsonElementEnd(s, ParseJsonValue(s, p))

\* What JSON.parse makes of a whole text that parsed to r.
JsonParsed(text, r) ==
    IF r.ok /\ r.p > Len(text)
    THEN [threw |-> FALSE, v |-> r.v]
    ELSE [threw |-> TRUE, v |-> JAtom("null")]

\* JSON.parse(text): threw is TRUE where JSON.parse raises a SyntaxError.
JsonParse(text) == JsonParsed(text, ParseJsonValue(text, 1))

\* data.<key> of a parsed value: the last member of that name, or undefined.
JsonField(v, key) ==
    LET hits == {j \in 1..Len(v.m) : v.m[j][1] = key}
    IN  IF v.k # "object" \/ hits = {} THEN JAtom("undefined") ELSE v.m[Max(hits)][2]

--------------------------------------------------------------------------
(* Diagram marker codec *)

MarkerPrefix == "MDX_DIAGRAM:"

DiagramTypes == {"mermaid", "plantuml"}

\* JSON.stringify({ type, code })
StringifyPayload(type, code) ==
    "{\"type\":" \o JsonQuote(type) \o ",\"code\":" \o JsonQuote(code) \o "}"

encodeDiagramMarker(type, code) ==
    MarkerPrefix \o Base64Encode(Utf8Bytes(StringifyPayload(type, code)))

NotAMarker == [ok |-> FALSE, threw |-> FALSE, type |-> "", code |-> ""]

\* The try block of buildDiagramBlock after JSON.parse, and its catch: the
\* dialect and the source the fenced block is built from, or "not a marker";
\* threw is TRUE when an error leaves the function.
DiagramDataNoCatch(parsed) ==
    IF parsed.threw THEN [NotAMarker EXCEPT !.threw = TRUE]
    ELSE [ok |-> TRUE, threw |-> FALSE,
          type |-> JsonField(parsed.v, "type").s, code |-> JsonField(parsed.v, "code").s]

\* (!data is true of null, typeof data.type is 'undefined' for every value
\* that is not an object.)
DiagramData(parsed) ==
    IF parsed.threw THEN NotAMarker
    ELSE IF \/ parsed.v.k # "object"
            \/ JsonField(parsed.v, "type").k # "string"
            \/ JsonField(parsed.v, "code").k # "string"
         THEN NotAMarker
    ELSE [ok |-> TRUE, threw |-> FALSE,
          type |-> IF Trim(JsonField(parsed.v, "type").s) = "" THEN "mermaid"
                   ELSE Trim(JsonField(parsed.v, "type").s),
          code |-> TrimEnd(JsonField(parsed.v, "code").s)]

\* JSON.parse(Buffer.from(marker.slice('MDX_DIAGRAM:'.length), 'base64').toString('utf-8'))
MarkerPayload(marker) ==
    JsonParse(Utf8String(Base64Decode(SubSeq(marker, Len(MarkerPrefix) + 1, Len(marker)))))

\* The decoding half of buildDiagramBlock.
DecodeDiagramMarker(marker) ==
    IF ~StartsWith(marker, MarkerPrefix) THEN NotAMarker
    ELSE DiagramData(MarkerPayload(marker))

\* The fenced block of a decoded marker.
FencedBlock(d) ==
    IF ~d.ok THEN ""
    ELSE "\n\n" \o Fence \o d.type \o "\n" \o d.code \o "\n" \o Fence \o "\n\n"

\* buildDiagramBlock's result: the fenced block, or '' for "not a marker".
buildDiagramBlock(marker) == FencedBlock(DecodeDiagramMarker(marker))

--------------------------------------------------------------------------
(* Block parser: parseMarkdownBlocks *)

\* A MarkdownBlock; a field the code leaves undefined holds its empty value.
Block(type) ==
    [type |-> type, level |-> 0, content |-> "", language |-> "",
     diagramType |-> "", items |-> <<>>, ordered |-> FALSE, rows |-> <<>>,
     src |-> "", alt |-> ""]

\* The length of the longest prefix of s from position k made of character c.
RECURSIVE RunOf(_, _, _)
RunOf(s, k, c) ==
    IF k <= Len(s) /\ Ch(s, k) = c THEN 1 + RunOf(s, k + 1, c) ELSE 0

RECURSIVE SpaceRun(_, _)
SpaceRun(s, k) ==
    IF k <= Len(s) /\ IsSpace(Ch(s, k)) THEN 1 + SpaceRun(s, k + 1) ELSE 0

\* What the regular expression . matches: anything but a line terminator.
IsDot(c) == c \notin {"\n", "\r"}

\* line.match(/^(#{1,6})\s+(.+)$/): ok, the number of #, and the second group.
HeadingMatch(line) ==
    LET n == RunOf(line, 1, "#")
        w == SpaceRun(line, n + 1)
        rest == SubSeq(line, n + w + 1, Len(line))
        \* \s+ gives back its last character when nothing follows it
        text == IF rest # "" THEN rest ELSE SubSeq(line, n + w, Len(line))
        ok == /\ n >= 1 /\ n <= 6
              /\ w >= 1
              /\ (rest # "" \/ w >= 2)
              /\ \A k \in 1..Len(text) : IsDot(Ch(text, k))
    IN  [ok |-> ok, level |-> n, text |-> IF ok THEN text ELSE ""]

\* /^(-{3,}|\*{3,}|_{3,})$/.test(line.trim())
IsRule(line) ==
    LET t == Trim(line)
    IN  /\ Len(t) >= 3
        /\ Ch(t, 1) \in {"-", "*", "_"}
        /\ \A k \in 1..Len(t) : Ch(t, k) = Ch(t, 1)

IsFence(line) == StartsWith(line, Fence)

\* A test for @startuml alone.
HasStartUml(code) == Includes(code, "@startuml")

\* /@startuml[\s\S]*@enduml/.test(code)
HasStartEndUml(code) ==
    \E a \in 1..Len(code) :
        /\ StartsWithAt(code, "@startuml", a)
        /\ \E b \in (a + Len("@startuml"))..Len(code) : StartsWithAt(code, "@enduml", b)

IsQuote(line) == StartsWith(line, ">")

\* line.replace(/^>\s?/, '')
StripQuote(line) ==
    IF Len(line) >= 2 /\ IsSpace(Ch(line, 2))
    THEN SubSeq(line, 3, Len(line))
    ELSE SubSeq(line, 2, Len(line))

\* A bullet test that leaves a line holding a pipe to the later rules.
IsBulletWithoutPipe(line) ==
    /\ Len(line) >= 2 /\ Ch(line, 1) \in {"-", "*", "+"} /\ IsSpace(Ch(line, 2))
    /\ ~Includes(line, "|")

\* /^[-*+]\s/.test(line)
IsBullet(line) ==
    Len(line) >= 2 /\ Ch(line, 1) \in {"-", "*", "+"} /\ IsSpace(Ch(line, 2))

RECURSIVE DigitRun(_, _)
DigitRun(s, k) ==
    IF k <= Len(s) /\ IsDigit(Ch(s, k)) THEN 1 + DigitRun(s, k + 1) ELSE 0

\* /^\d+\.\s/.test(line)
IsNumbered(line) ==
    LET d == DigitRun(line, 1)
    IN  d >= 1 /\ Len(line) >= d + 2 /\ Ch(line, d + 1) = "." /\ IsSpace(Ch(line, d + 2))

\* One :?-{3,}:? cell of a separator row at position k: the position after
\* it, or 0 when there is none.
SeparatorCell(s, k) ==
    LET a == IF k <= Len(s) /\ Ch(s, k) = ":" THEN k + 1 ELSE k
        d == RunOf(s, a, "-")
        b == a + d
    IN  IF d < 3 THEN 0
        ELSE IF b <= Len(s) /\ Ch(s, b) = ":" THEN b + 1 ELSE b

\* (?:\s*\|\s*:?-{3,}:?)*\s*\|?\s*$ from position k
RECURSIVE SeparatorTail(_, _)
SeparatorTail(s, k) ==
    LET a == k + SpaceRun(s, k) IN
    IF a > Len(s) THEN TRUE
    ELSE IF Ch(s, a) # "|" THEN FALSE
    ELSE LET b == a + 1 + SpaceRun(s, a + 1)
             c == SeparatorCell(s, b)
         IN  IF c # 0 THEN SeparatorTail(s, c) ELSE b > Len(s)

\* tableSeparatorPattern.test(s):
\* /^\s*\|?\s*:?-{3,}:?(?:\s*\|\s*:?-{3,}:?)*\s*\|?\s*$/
IsTableSeparator(s) ==
    LET a == 1 + SpaceRun(s, 1)
        b == IF a <= Len(s) /\ Ch(s, a) = "|" THEN a + 1 ELSE a
        c == SeparatorCell(s, b + SpaceRun(s, b))
    IN  c # 0 /\ SeparatorTail(s, c)

RECURSIVE TrimAll(_)
TrimAll(cells) ==
    IF cells = <<>> THEN <<>> ELSE <<Trim(Head(cells))>> \o TrimAll(Tail(cells))

\* A row split at its pipes that keeps the cells around the outer pipes.
parseRowKeepingOuterCells(line) == TrimAll(Split(Trim(line), "|"))

parseMarkdownTableRow(line) ==
    LET t == Trim(line)
        a == IF StartsWith(t, "|") THEN SubSeq(t, 2, Len(t)) ELSE t
        b == IF EndsWith(a, "|") THEN SubSeq(a, 1, Len(a) - 1) ELSE a
    IN  TrimAll(Split(b, "|"))

\* line.match(/!\[([^\]]*)\]\(([^)]+)\)/): the leftmost match.
ImageMatchAt(line, p) ==
    LET close == IndexOfFrom(line, "]", p + 2)
        paren == IF close = 0 THEN 0 ELSE IndexOfFrom(line, ")", close + 2)
    IN  /\ StartsWithAt(line, "![", p)
        /\ close # 0
        /\ StartsWithAt(line, "(", close + 1)
        /\ paren > close + 2

ImageMatch(line) ==
    LET ps == {p \in 1..Len(line) : ImageMatchAt(line, p)}
        p == Min(ps)
        close == IndexOfFrom(line, "]", p + 2)
        paren == IndexOfFrom(line, ")", close + 2)
    IN  IF ps = {} THEN [ok |-> FALSE, alt |-> "", src |-> ""]
        ELSE [ok |-> TRUE, alt |-> SubSeq(line, p + 2, close - 1),
              src |-> SubSeq(line, close + 2, paren - 1)]

\* The condition of the paragraph accumulation loop, on one line.
ParagraphAccepts(line) ==
    /\ Trim(line) # ""
    /\ ~StartsWith(line, "#")
    /\ ~StartsWith(line, Fence)
    /\ ~StartsWith(line, ">")
    /\ ~IsBullet(line)
    /\ ~IsNumbered(line)
    /\ ~Includes(line, "|")
    /\ ~IsRule(line)
    /\ ~StartsWith(line, "![")

ParagraphCap == 1000


\* The 1-based index of the first line at or after k that fails P, or
\* Len(ls) + 1: where a `while (i < lines.length && P(lines[i])) i++` stops.
FirstNot(ls, k, P(_)) ==
    LET js == {j \in k..Len(ls) : ~P(ls[j])}
    IN  IF js = {} THEN Len(ls) + 1 ELSE Min(js)

NotFence(line) == ~IsFence(line)

HasPipe(line) == Includes(line, "|")

StripBullet(line) == SubSeq(line, 3, Len(line))

StripNumber(line) == SubSeq(line, DigitRun(line, 1) + 3, Len(line))

MapLines(ls, F(_)) == [k \in 1..Len(ls) |-> F(ls[k])]

\* One iteration of the main loop at line index idx (0-based, idx < Len(ls)):
\* the line index after it, the blocks it pushes and the rule that ran.
ParseStep(ls, idx) ==
    LET line == ls[idx + 1]
        h == HeadingMatch(line)
        img == ImageMatch(line)
    IN
    IF h.ok THEN
        [i |-> idx + 1, rule |-> "heading",
         push |-> <<[Block("heading") EXCEPT !.level = h.level, !.content = Trim(h.text)]>>]
    ELSE IF IsRule(line) THEN
        [i |-> idx + 1, rule |-> "hr", push |-> <<Block("hr")>>]
    ELSE IF IsFence(line) THEN
        LET language == ToLowerCase(Trim(SubSeq(line, 4, Len(line))))
            close == FirstNot(ls, idx + 2, NotFence)
            codeContent == Join(SubSeq(ls, idx + 2, close - 1), "\n")
            isMermaid == language = "mermaid"
            isPlantUml == language = "plantuml" \/ language = "uml"
                              \/ HasStartEndUml(codeContent)
        IN  [i |-> close, rule |-> "fence",
             push |-> IF isMermaid \/ isPlantUml
                      THEN <<[Block("diagram") EXCEPT
                                !.diagramType = IF isMermaid THEN "mermaid" ELSE "plantuml",
                                !.content = codeContent]>>
                      ELSE <<[Block("code") EXCEPT
                                !.content = codeContent, !.language = language]>>]
    ELSE IF IsQuote(line) THEN
        LET end == FirstNot(ls, idx + 1, IsQuote)
        IN  [i |-> end - 1, rule |-> "blockquote",
             push |-> <<[Block("blockquote") EXCEPT
                           !.content = Join(MapLines(SubSeq(ls, idx + 1, end - 1), StripQuote),
                                            "\n")]>>]
    ELSE IF IsBullet(line) THEN
        LET end == FirstNot(ls, idx + 1, IsBullet)
        IN  [i |-> end - 1, rule |-> "ul",
             push |-> <<[Block("list") EXCEPT
                           !.items = MapLines(SubSeq(ls, idx + 1, end - 1), StripBullet),
                           !.ordered = FALSE]>>]
    ELSE IF IsNumbered(line) THEN
        LET end == FirstNot(ls, idx + 1, IsNumbered)
        IN  [i |-> end - 1, rule |-> "ol",
             push |-> <<[Block("list") EXCEPT
                           !.items = MapLines(SubSeq(ls, idx + 1, end - 1), StripNumber),
                           !.ordered = TRUE]>>]
    ELSE IF /\ HasPipe(line)
            /\ idx + 1 < Len(ls)
            /\ IsTableSeparator(Trim(ls[idx + 2])) THEN
        LET end == FirstNot(ls, idx + 3, HasPipe)
            tableRows == <<parseMarkdownTableRow(line)>>
                            \o MapLines(SubSeq(ls, idx + 3, end - 1), parseMarkdownTableRow)
        IN  [i |-> end - 1, rule |-> "table",
             push |-> <<[Block("table") EXCEPT !.rows = tableRows]>>]
    ELSE IF img.ok THEN
        [i |-> idx + 1, rule |-> "image",
         push |-> <<[Block("image") EXCEPT !.alt = img.alt, !.src = img.src]>>]
    ELSE IF Trim(line) # "" THEN
        LET run == FirstNot(ls, idx + 1, ParagraphAccepts) - (idx + 1)
            taken == IF run > ParagraphCap THEN ParagraphCap + 1 ELSE run
        IN  [i |-> idx + taken, rule |-> "paragraph",
             push |-> IF taken > 0
                      THEN <<[Block("paragraph") EXCEPT
                                !.content = Join(SubSeq(ls, idx + 1, idx + taken), " ")]>>
                      ELSE <<>>]
    ELSE
        [i |-> idx + 1, rule |-> "blank", push |-> <<>>]

--------------------------------------------------------------------------
(* Browser sessions, shared by the renderer and the assembler *)

\* An entry of the history log: what happened, at which block (0: at none),
\* and for the end of a render its result.
Event(e, n, r) == [e |-> e, n |-> n, r |-> r]

NoSession == [state |-> "none", closes |-> 0]

OpenSession == [state |-> "open", closes |-> 0]

\* browser.close()
CloseSession(b) == [state |-> "closed", closes |-> b.closes + 1]

--------------------------------------------------------------------------
(* Media helpers *)

\* Math.round(a / b) for positive integers
RoundDiv(a, b) == (2 * a + b) \div (2 * b)

\* A scaling without the test of the width.
scaleAlways(width, height, maxWidth) ==
    [width |-> RoundDiv(width * maxWidth, width),
     height |-> RoundDiv(height * maxWidth, width)]

\* The result in exact arithmetic, Math.round taking a half upwards.
scaleToMaxWidth(width, height, maxWidth) ==
    IF width <= maxWidth THEN [width |-> width, height |-> height]
    ELSE [width |-> RoundDiv(width * maxWidth, width),
          height |-> RoundDiv(height * maxWidth, width)]

\* height * maxWidth / width lies exactly half-way between two integers.
HalfWay(width, height, maxWidth) ==
    width > maxWidth /\ (2 * height * maxWidth) % (2 * width) = width

\* What scaleToMaxWidth can return in double arithmetic: ratio is the rounded
\* quotient maxWidth / width, so a product height * ratio that is half-way in
\* exact arithmetic may fall below the half and be rounded downwards
\* (880 x 11 at 600 gives height 7, 1200 x 1 gives height 1). The width
\* product is within rounding error of maxWidth and rounds to it.
ScaledSizes(width, height, maxWidth) ==
    LET exact == scaleToMaxWidth(width, height, maxWidth)
    IN  IF HalfWay(width, height, maxWidth)
        THEN {exact, [exact EXCEPT !.height = @ - 1]}
        ELSE {exact}

NoScale ==
    [pc |-> "idle", width |-> 0, height |-> 0, maxWidth |-> 0,
     result |-> [width |-> 0, height |-> 0]]

ScaleCall(width, height, maxWidth) ==
    [NoScale EXCEPT !.pc = "call", !.width = width, !.height = height,
                    !.maxWidth = maxWidth]

\* scaleToMaxWidth(width, height, maxWidth)
ScaleToMaxWidth ==
    /\ scale.pc = "call"
    /\ \E r \in ScaledSizes(scale.width, scale.height, scale.maxWidth) :
           scale' = [scale EXCEPT !.pc = "done", !.result = r]
    /\ pc' = "done"
    /\ UNCHANGED <<task, lines, i, blocks, steps, sessions, children, blockIdx, asm, rnd,
                   log, codec, md, inl, probe>>

MaxImageWidth == 600

--------------------------------------------------------------------------
(* Diagram renderer: renderDiagramToPngBuffer *)

Padding == 8

BaseViewportWidth == 1600

BaseViewportHeight == 1200

NoBox == [ok |-> FALSE, w |-> 0, h |-> 0]

Box(w, h) == [ok |-> TRUE, w |-> w, h |-> h]

\* The bounding boxes a page may report: one that fits the base viewport, one
\* too wide and one too high for it.
Boxes == {Box(100, 50), Box(1590, 300), Box(700, 1190)}

\* A test that every box passes.
ExceedsAlways(box) == TRUE

\* box.width + padding * 2 > baseViewport.width || box.height + ... > baseViewport.height
ExceedsViewport(box) ==
    box.w + Padding * 2 > BaseViewportWidth \/ box.h + Padding * 2 > BaseViewportHeight

RenderIdle ==
    [pc |-> "idle", type |-> "", code |-> "", ownsBrowser |-> FALSE, browser |-> "null",
     loads |-> 0, box |-> NoBox, result |-> "none", fail |-> "", width |-> 0, height |-> 0,
     pending |-> "", waited |-> 0, viewport |-> [width |-> 0, height |-> 0],
     measured |-> <<>>]

\* The locals at entry: ownsBrowser = !sharedBrowser, browser = sharedBrowser ?? null.
RenderCall(type, code, sharedBrowser) ==
    [RenderIdle EXCEPT !.pc = "open", !.type = type, !.code = code,
                       !.ownsBrowser = (sharedBrowser = "null"), !.browser = sharedBrowser]

\* An exception leaves the try block: the finally clause runs, then it propagates.
RenderThrow(r, why) == [r EXCEPT !.pc = "finally", !.result = "threw", !.fail = why]

\* The waits of waitForDiagram that can time out.
WaitOutcomes(type) ==
    IF type = "plantuml" THEN {"ok", "selector-timeout", "image-timeout"}
    ELSE {"ok", "selector-timeout"}

\* if (ownsBrowser) { findChromePath; puppeteer.launch }  if (!browser) return null
RenderOpen ==
    /\ rnd.pc = "open"
    /\ \E chrome \in BOOLEAN, launchOk \in BOOLEAN :
        IF rnd.ownsBrowser THEN
            IF ~chrome THEN
                /\ rnd' = RenderThrow(rnd, "no-chrome")
                /\ UNCHANGED sessions
            ELSE IF ~launchOk THEN
                /\ rnd' = RenderThrow(rnd, "launch")
                /\ UNCHANGED sessions
            ELSE
                /\ rnd' = [rnd EXCEPT !.pc = "load", !.browser = "own"]
                /\ sessions' = [sessions EXCEPT !.own = OpenSession]
        ELSE
            /\ rnd' = IF rnd.browser = "null"
                      THEN [rnd EXCEPT !.pc = "finally", !.result = "null"]
                      ELSE [rnd EXCEPT !.pc = "load"]
            /\ UNCHANGED sessions
    /\ log' = Append(log, Event("render-start", blockIdx, ""))
    /\ UNCHANGED <<task, pc, lines, i, blocks, steps, children, blockIdx, asm, codec, md>>
    /\ UNCHANGED <<inl, probe, scale>>

\* The { timeout: 10000 } of page.waitForSelector and page.waitForFunction, in ms.
WaitTimeout == 10000

\* The time between two looks of a wait at the page, in ms.
PollInterval == 5000

\* The waits that end by their timeout: what the page never gives.
TimedOutWaits == {"selector-timeout", "image-timeout"}

\* page.setViewport: baseViewport before the first load, the measured box
\* with padding before the second (Math.ceil of a whole number of pixels).
LoadViewport(r) ==
    IF r.loads = 0 THEN [width |-> BaseViewportWidth, height |-> BaseViewportHeight]
    ELSE [width |-> r.box.w + Padding * 2, height |-> r.box.h + Padding * 2]

\* newPage (first time), setViewport, setContent, and waitForDiagram up to the
\* start of a wait for something that the page never gives.
RenderLoad ==
    /\ rnd.pc = "load"
    /\ \E outcome \in WaitOutcomes(rnd.type) \cup {"newPage", "setContent"} :
        /\ outcome = "newPage" => rnd.loads = 0
        /\ LET set == [rnd EXCEPT !.viewport = LoadViewport(rnd), !.loads = @ + 1]
           IN  rnd' = IF outcome = "ok" THEN [set EXCEPT !.pc = "measure"]
                      ELSE IF outcome = "newPage" THEN RenderThrow(rnd, outcome)
                      ELSE IF outcome \in TimedOutWaits
                          THEN [set EXCEPT !.pc = "wait", !.pending = outcome, !.waited = 0]
                      ELSE RenderThrow(set, outcome)
    /\ UNCHANGED <<task, pc, lines, i, blocks, steps, sessions, children, blockIdx, asm,
                   log, codec, md>>
    /\ UNCHANGED <<inl, probe, scale>>

WaitNeverExpires(r) == FALSE

\* The wait has lasted its timeout.
WaitExpired(r) == r.waited >= WaitTimeout

\* page.waitForSelector / page.waitForFunction while what is waited for does
\* not appear: look again after the interval, reject once the timeout is over.
RenderWait ==
    /\ rnd.pc = "wait"
    /\ rnd.waited < WaitTimeout \/ WaitExpired(rnd)
    /\ rnd' = IF WaitExpired(rnd) THEN RenderThrow(rnd, rnd.pending)
              ELSE [rnd EXCEPT !.waited = @ + PollInterval]
    /\ UNCHANGED <<task, pc, lines, i, blocks, steps, sessions, children, blockIdx, asm,
                   log, codec, md>>
    /\ UNCHANGED <<inl, probe, scale>>

\* element = await page.$(selector); box = element ? await element.boundingBox() : null
\* and the decision to render once more at a larger viewport.
RenderMeasure ==
    /\ rnd.pc = "measure"
    /\ \E box \in Boxes \cup {NoBox} :
        LET got == [rnd EXCEPT !.box = box, !.measured = Append(@, box)]
        IN  rnd' = IF rnd.loads = 1 /\ box.ok /\ ExceedsViewport(box)
                       THEN [got EXCEPT !.pc = "load"]
                   ELSE IF ~box.ok
                       THEN [got EXCEPT !.pc = "finally", !.result = "null"]
                   ELSE [got EXCEPT !.pc = "shot"]
    /\ UNCHANGED <<task, pc, lines, i, blocks, steps, sessions, children, blockIdx, asm,
                   log, codec, md>>
    /\ UNCHANGED <<inl, probe, scale>>

\* page.screenshot({ clip }) and the returned DiagramImage
RenderShot ==
    /\ rnd.pc = "shot"
    /\ \E ok \in BOOLEAN :
        rnd' = IF ok
               THEN [rnd EXCEPT !.pc = "finally", !.result = "image",
                                !.width = IF rnd.box.w + Padding * 2 < 1 THEN 1
                                          ELSE rnd.box.w + Padding * 2,
                                !.height = IF rnd.box.h + Padding * 2 < 1 THEN 1
                                           ELSE rnd.box.h + Padding * 2]
               ELSE RenderThrow(rnd, "screenshot")
    /\ UNCHANGED <<task, pc, lines, i, blocks, steps, sessions, children, blockIdx, asm,
                   log, codec, md>>
    /\ UNCHANGED <<inl, probe, scale>>

\* finally { if (ownsBrowser && browser) await browser.close() }
RenderClosesAnyBrowser(r) == r.browser # "null"

RenderClosesBrowser(r) == r.ownsBrowser /\ r.browser # "null"

RenderFinally ==
    /\ rnd.pc = "finally"
    /\ rnd' = [rnd EXCEPT !.pc = "returned"]
    /\ sessions' = IF RenderClosesBrowser(rnd)
                   THEN [sessions EXCEPT ![rnd.browser] = CloseSession(@)]
                   ELSE sessions
    /\ log' = Append(log, Event("render-end", blockIdx, rnd.result))
    /\ pc' = IF task = "render" THEN "done" ELSE pc
    /\ UNCHANGED <<task, lines, i, blocks, steps, children, blockIdx, asm, codec, md>>
    /\ UNCHANGED <<inl, probe, scale>>

--------------------------------------------------------------------------
(* Parser actions *)

\* How many iterations beyond one per line the model follows a parse for.
MaxExtraIters == 2

\* One iteration of `while (i < lines.length)`.
ParseIterate ==
    /\ pc = "parse"
    /\ i < Len(lines)
    /\ Len(steps) < Len(lines) + MaxExtraIters
    /\ LET r == ParseStep(lines, i)
       IN  /\ i' = r.i
           /\ blocks' = blocks \o r.push
           /\ steps' = Append(steps, [rule |-> r.rule, from |-> i, to |-> r.i])
    /\ UNCHANGED <<task, pc, lines, sessions, children, blockIdx, asm, rnd, log, codec, md>>
    /\ UNCHANGED <<inl, probe, scale>>

\* The loop condition fails: return blocks.
ParseReturn ==
    /\ pc = "parse"
    /\ i >= Len(lines)
    /\ pc' = IF task = "parse" THEN "done" ELSE "scan"
    /\ UNCHANGED <<task, lines, i, blocks, steps, sessions, children, blockIdx, asm, rnd,
                   log, codec, md>>
    /\ UNCHANGED <<inl, probe, scale>>

--------------------------------------------------------------------------
(* Document assembler: markdownToDocx *)

\* A document element (a Paragraph or Table handed to the docx builder).
Element(kind, text) ==
    [kind |-> kind, text |-> text, alt |-> "", width |-> 0, height |-> 0,
     level |-> 0, rows |-> <<>>]

\* The literal code-style paragraph (Consolas, shaded) of a code block and of
\* a diagram that was not rendered.
LiteralParagraph(block) == Element("code", block.content)

\* The centred image paragraph and the hidden-text paragraph of a rendered diagram.
DiagramElementsNoMarker(block, image) ==
    LET scaled == scaleToMaxWidth(image.width, image.height, MaxImageWidth)
    IN  <<[Element("image", "") EXCEPT !.width = scaled.width, !.height = scaled.height]>>

DiagramElements(block, image) ==
    LET marker == encodeDiagramMarker(block.diagramType, block.content)
        scaled == scaleToMaxWidth(image.width, image.height, MaxImageWidth)
    IN  <<[Element("image", "") EXCEPT
             !.alt = marker, !.width = scaled.width, !.height = scaled.height],
          Element("hidden", marker)>>

RECURSIVE NatToString(_)
NatToString(n) ==
    IF n < 10 THEN Ch("0123456789", n + 1)
    ELSE NatToString(n \div 10) \o Ch("0123456789", (n % 10) + 1)

\* The bullet glyph of an unordered item (U+2022 in the code).
BulletGlyph == "*"

\* What the probe and the file system give for an image block's file.
ImageFiles == {"missing", "unreadable", "unprobed", "wide"}

\* The elements of a block that is not a diagram.
BlockElements(block, file) ==
    IF block.type = "heading" THEN
        <<[Element("heading", block.content) EXCEPT
             !.level = IF block.level = 0 THEN 1 ELSE block.level]>>
    ELSE IF block.type = "paragraph" THEN <<Element("paragraph", block.content)>>
    ELSE IF block.type = "code" THEN <<LiteralParagraph(block)>>
    ELSE IF block.type = "blockquote" THEN <<Element("blockquote", block.content)>>
    ELSE IF block.type = "list" THEN
        [k \in 1..Len(block.items) |->
            Element("item", (IF block.ordered THEN NatToString(k) \o ". "
                             ELSE BulletGlyph \o " ") \o block.items[k])]
    ELSE IF block.type = "table" THEN
        IF Len(block.rows) > 0 THEN <<[Element("table", "") EXCEPT !.rows = block.rows]>>
        ELSE <<>>
    ELSE IF block.type = "hr" THEN <<Element("rule", "")>>
    ELSE IF block.type = "image" THEN
        IF block.src = "" THEN <<>>
        ELSE IF file \in {"missing", "unreadable"} THEN
            <<Element("placeholder",
                      "[Image: " \o (IF block.alt # "" THEN block.alt ELSE block.src) \o "]")>>
        ELSE LET dimensions == IF file = "unprobed" THEN [width |-> 400, height |-> 300]
                               ELSE [width |-> 800, height |-> 401]
                 scaled == scaleToMaxWidth(dimensions.width, dimensions.height,
                                           MaxImageWidth)
             IN  <<[Element("picture", "") EXCEPT
                      !.width = scaled.width, !.height = scaled.height]>>
    ELSE <<>>

AsmIdle ==
    [hasDiagrams |-> FALSE, canRenderDiagrams |-> FALSE, diagramBrowser |-> "null",
     error |-> FALSE]

HasDiagramsAlways(bs) == TRUE

\* blocks.some(block => block.type === 'diagram' && Boolean(block.content && block.diagramType))
HasDiagrams(bs) ==
    \E k \in 1..Len(bs) :
        bs[k].type = "diagram" /\ bs[k].content # "" /\ bs[k].diagramType # ""

\* const children = []; hasDiagrams; diagramBrowser = null; canRenderDiagrams = hasDiagrams
AsmScan ==
    /\ pc = "scan"
    /\ children' = <<>>
    /\ asm' = [AsmIdle EXCEPT !.hasDiagrams = HasDiagrams(blocks),
                              !.canRenderDiagrams = HasDiagrams(blocks)]
    /\ blockIdx' = 1
    /\ pc' = IF HasDiagrams(blocks) THEN "launch" ELSE "loop"
    /\ UNCHANGED <<task, lines, i, blocks, steps, sessions, rnd, log, codec, md>>
    /\ UNCHANGED <<inl, probe, scale>>

\* if (hasDiagrams) { findChromePath(); puppeteer.launch(...) or canRenderDiagrams = false }
AsmLaunch ==
    /\ pc = "launch"
    /\ \E chrome \in BOOLEAN, launchOk \in BOOLEAN :
        IF ~chrome THEN
            /\ asm' = [asm EXCEPT !.canRenderDiagrams = FALSE]
            /\ pc' = "loop"
            /\ UNCHANGED <<sessions, log>>
        ELSE IF ~launchOk THEN
            \* puppeteer.launch rejects before the try block is entered
            /\ pc' = "threw"
            /\ log' = Append(log, Event("launch-failed", 0, ""))
            /\ UNCHANGED <<asm, sessions>>
        ELSE
            /\ asm' = [asm EXCEPT !.diagramBrowser = "doc"]
            /\ sessions' = [sessions EXCEPT !.doc = OpenSession]
            /\ log' = Append(log, Event("launch", 0, ""))
            /\ pc' = "loop"
    /\ UNCHANGED <<task, lines, i, blocks, steps, children, blockIdx, rnd, codec, md>>
    /\ UNCHANGED <<inl, probe, scale>>

\* The guard of the render attempt of a diagram block.
AttemptsRenderAlways(a, block) == block.content # "" /\ block.diagramType # ""

AttemptsRender(a, block) ==
    a.canRenderDiagrams /\ block.content # "" /\ block.diagramType # ""

\* A loop that calls the renderer for a diagram block and goes on to the next
\* block without awaiting the result.
AsmBlockNoAwait ==
    /\ pc = "loop"
    /\ blockIdx <= Len(blocks)
    /\ IF blocks[blockIdx].type = "diagram" /\ AttemptsRender(asm, blocks[blockIdx])
       THEN /\ rnd' = RenderCall(blocks[blockIdx].diagramType, blocks[blockIdx].content,
                                 asm.diagramBrowser)
            /\ children' = children
       ELSE /\ children' = children \o BlockElements(blocks[blockIdx], "missing")
            /\ rnd' = rnd
    /\ blockIdx' = blockIdx + 1
    /\ log' = Append(log, Event("block", blockIdx, ""))
    /\ UNCHANGED <<task, pc, lines, i, blocks, steps, sessions, asm, codec, md>>
    /\ UNCHANGED <<inl, probe, scale>>

\* One pass of `for (const block of blocks)` up to the push of the block's
\* elements or, for a diagram to render, up to the call of the renderer.
\* The docx builder may raise while a block other than a diagram is built.
AsmBlock ==
    /\ pc = "loop"
    /\ blockIdx <= Len(blocks)
    /\ LET block == blocks[blockIdx] IN
        IF block.type = "diagram" THEN
            IF AttemptsRender(asm, block) THEN
                /\ rnd' = RenderCall(block.diagramType, block.content, asm.diagramBrowser)
                /\ pc' = "render"
                /\ UNCHANGED <<children, blockIdx, asm>>
            ELSE
                /\ children' = Append(children, LiteralParagraph(block))
                /\ blockIdx' = blockIdx + 1
                /\ UNCHANGED <<pc, asm, rnd>>
        ELSE
            \E file \in ImageFiles, throws \in BOOLEAN :
                /\ file # "missing" => block.type = "image"
                /\ IF throws THEN
                       /\ asm' = [asm EXCEPT !.error = TRUE]
                       /\ pc' = "finally"
                       /\ UNCHANGED <<children, blockIdx>>
                   ELSE
                       /\ children' = children \o BlockElements(block, file)
                       /\ blockIdx' = blockIdx + 1
                       /\ UNCHANGED <<pc, asm>>
                /\ UNCHANGED rnd
    /\ log' = Append(log, Event("block", blockIdx, ""))
    /\ UNCHANGED <<task, lines, i, blocks, steps, sessions, codec, md>>
    /\ UNCHANGED <<inl, probe, scale>>

\* What the diagram case pushes once the renderer has returned or thrown:
\* the image and its marker, or (also from the catch clause) the literal text.
RenderedElementsKeepBoth(block, r) ==
    IF r.result = "image"
    THEN DiagramElements(block, [width |-> r.width, height |-> r.height])
             \o <<LiteralParagraph(block)>>
    ELSE <<LiteralParagraph(block)>>

RenderedElements(block, r) ==
    IF r.result = "image"
    THEN DiagramElements(block, [width |-> r.width, height |-> r.height])
    ELSE <<LiteralParagraph(block)>>

AsmAfterRender ==
    /\ pc = "render"
    /\ task \in {"docx", "roundtrip"}
    /\ rnd.pc = "returned"
    /\ children' = children \o RenderedElements(blocks[blockIdx], rnd)
    /\ blockIdx' = blockIdx + 1
    /\ rnd' = RenderIdle
    /\ pc' = "loop"
    /\ UNCHANGED <<task, lines, i, blocks, steps, sessions, asm, log, codec, md>>
    /\ UNCHANGED <<inl, probe, scale>>

\* The for loop is exhausted: leave the try block normally.
AsmLoopEnd ==
    /\ pc = "loop"
    /\ blockIdx > Len(blocks)
    /\ pc' = "finally"
    /\ UNCHANGED <<task, lines, i, blocks, steps, sessions, children, blockIdx, asm, rnd,
                   log, codec, md>>
    /\ UNCHANGED <<inl, probe, scale>>

AsmNeverCloses(a) == FALSE

\* finally { if (diagramBrowser) await diagramBrowser.close() }
AsmClosesBrowser(a) == a.diagramBrowser # "null"

AsmFinally ==
    /\ pc = "finally"
    /\ IF AsmClosesBrowser(asm)
       THEN /\ sessions' = [sessions EXCEPT !.doc = CloseSession(@)]
            /\ log' = Append(log, Event("close", 0, ""))
       ELSE UNCHANGED <<sessions, log>>
    /\ pc' = IF asm.error THEN "threw" ELSE "pack"
    /\ UNCHANGED <<task, lines, i, blocks, steps, children, blockIdx, asm, rnd, codec, md>>
    /\ UNCHANGED <<inl, probe, scale>>

\* new Document, Packer.toBuffer, fs.writeFileSync
AsmPack ==
    /\ pc = "pack"
    /\ \E ok \in BOOLEAN : pc' = IF ok THEN "written" ELSE "threw"
    /\ UNCHANGED <<task, lines, i, blocks, steps, sessions, children, blockIdx, asm, rnd,
                   log, codec, md>>
    /\ UNCHANGED <<inl, probe, scale>>

--------------------------------------------------------------------------
(* Reverse assembler: docxToMarkdown / htmlToMarkdown *)

\* Text as mammoth writes it into HTML.
RECURSIVE HtmlEscape(_)
HtmlEscape(s) ==
    IF s = "" THEN ""
    ELSE (IF Ch(s, 1) = "&" THEN "&amp;"
          ELSE IF Ch(s, 1) = "<" THEN "&lt;"
          ELSE IF Ch(s, 1) = ">" THEN "&gt;"
          ELSE IF Ch(s, 1) = "\"" THEN "&quot;"
          ELSE Ch(s, 1)) \o HtmlEscape(Tail(s))

\* The data URI mammoth gives an embedded picture.
PictureSrc == "data:image/png;base64,AAAA"

\* How the DOCX writer and mammoth.convertToHtml treat what the code does not
\* decide: whether text marked `vanish` is left out, and the order of an
\* image's attributes.
MammothShapes == [vanish : BOOLEAN, altFirst : BOOLEAN]

\* A paragraph of text; mammoth leaves out an empty paragraph.
HtmlParagraph(text) ==
    IF text = "" THEN "" ELSE "<p>" \o HtmlEscape(text) \o "</p>"

RECURSIVE HtmlCells(_)
HtmlCells(row) ==
    IF row = <<>> THEN ""
    ELSE "<td>" \o HtmlParagraph(Head(row)) \o "</td>" \o HtmlCells(Tail(row))

RECURSIVE HtmlRows(_)
HtmlRows(rows) ==
    IF rows = <<>> THEN ""
    ELSE "<tr>" \o HtmlCells(Head(rows)) \o "</tr>" \o HtmlRows(Tail(rows))

\* The HTML of one document element.
ElementHtml(el, shape) ==
    IF el.kind = "heading" THEN
        IF el.text = "" THEN ""
        ELSE "<h" \o NatToString(el.level) \o ">" \o HtmlEscape(el.text)
                 \o "</h" \o NatToString(el.level) \o ">"
    ELSE IF el.kind = "table" THEN "<table>" \o HtmlRows(el.rows) \o "</table>"
    ELSE IF el.kind = "picture" THEN "<p><img src=\"" \o PictureSrc \o "\" /></p>"
    ELSE IF el.kind = "image" THEN
        IF el.alt = "" THEN "<p><img src=\"" \o PictureSrc \o "\" /></p>"
        ELSE IF shape.altFirst
             THEN "<p><img alt=\"" \o HtmlEscape(el.alt) \o "\" src=\"" \o PictureSrc
                      \o "\" /></p>"
             ELSE "<p><img src=\"" \o PictureSrc \o "\" alt=\"" \o HtmlEscape(el.alt)
                      \o "\" /></p>"
    ELSE IF el.kind = "hidden" THEN
        IF shape.vanish THEN "" ELSE HtmlParagraph(el.text)
    ELSE HtmlParagraph(el.text)

\* result.value of mammoth.convertToHtml for the document written from els.
RECURSIVE MammothHtml(_, _)
MammothHtml(els, shape) ==
    IF els = <<>> THEN ""
    ELSE ElementHtml(Head(els), shape) \o MammothHtml(Tail(els), shape)

\* md while it holds markup, as the sequence of its tags and the text runs
\* between them (html in which < and > only delimit tags): a pattern that
\* starts with < and cannot cross > matches inside one tag.
RECURSIVE Tokenize(_)
TokenizeAt(s, cut) ==
    IF cut = 0 THEN <<s>>
    ELSE <<SubSeq(s, 1, cut)>> \o Tokenize(SubSeq(s, cut + 1, Len(s)))

Tokenize(s) ==
    IF s = "" THEN <<>>
    ELSE IF Ch(s, 1) = "<" THEN TokenizeAt(s, IndexOfFrom(s, ">", 1))
    ELSE TokenizeAt(s, IndexOfFrom(s, "<", 1) - 1 + (IF Includes(s, "<") THEN 0 ELSE 1))

IsTag(t) == StartsWith(t, "<") /\ EndsWith(t, ">")

\* s holds p (given in lower case) at position k, whatever the case of its letters.
StartsWithAtI(s, p, k) ==
    k + Len(p) - 1 <= Len(s) /\ ToLowerCase(SubSeq(s, k, k + Len(p) - 1)) = p

\* <name[^>]*> with the flag i
TagNamed(t, name) ==
    /\ IsTag(t)
    /\ Len(t) >= Len(name) + 2
    /\ ToLowerCase(SubSeq(t, 1, Len(name) + 1)) = "<" \o name

\* <\/name> with the flag i
CloseTag(t, name) == Len(t) = Len(name) + 3 /\ ToLowerCase(t) = "</" \o name \o ">"

HasLineBreak(t) == Includes(t, "\n") \/ Includes(t, "\r")

\* Where (.*?)<\/name> ends for a match opened before token k: the index of
\* the nearest closing tag, 0 when a line break or the end comes first.
RECURSIVE CloseIndex(_, _, _)
CloseIndex(ts, k, name) ==
    IF k > Len(ts) THEN 0
    ELSE IF CloseTag(ts[k], name) THEN k
    ELSE IF HasLineBreak(ts[k]) THEN 0
    ELSE CloseIndex(ts, k + 1, name)

TextToken(s) == IF s = "" THEN <<>> ELSE <<s>>

\* md.replace(/<name[^>]*>(.*?)<\/name>/gi, pre + '$1' + post) from token k on
RECURSIVE ReplaceTaggedFrom(_, _, _, _, _)
ReplaceTaggedFrom(ts, k, name, pre, post) ==
    IF k > Len(ts) THEN <<>>
    ELSE IF TagNamed(ts[k], name) /\ CloseIndex(ts, k + 1, name) > 0
         THEN TextToken(pre) \o SubSeq(ts, k + 1, CloseIndex(ts, k + 1, name) - 1)
                  \o TextToken(post)
                  \o ReplaceTaggedFrom(ts, CloseIndex(ts, k + 1, name) + 1, name, pre, post)
         ELSE <<ts[k]>> \o ReplaceTaggedFrom(ts, k + 1, name, pre, post)

ReplaceTagged(ts, name, pre, post) == ReplaceTaggedFrom(ts, 1, name, pre, post)

\* md.replace(/<name[^>]*>/gi, text)
ReplaceOpenTag(ts, name, text) ==
    [k \in 1..Len(ts) |-> IF TagNamed(ts[k], name) THEN text ELSE ts[k]]

\* md.replace(/<\/name>/gi, text)
ReplaceCloseTag(ts, name, text) ==
    [k \in 1..Len(ts) |-> IF CloseTag(ts[k], name) THEN text ELSE ts[k]]

\* The first quote character of t at or after position k (0: none).
NextQuote(t, k, quotes) ==
    IF {q \in k..Len(t) : Ch(t, q) \in quotes} = {} THEN 0
    ELSE Min({q \in k..Len(t) : Ch(t, q) \in quotes})

\* The places of tag t where [^>]*attr="([^"]*)" can match at or after
\* position from: attr=, an opening quote, and a closing quote after it.
AttrStarts(t, attr, from, quotes) ==
    {a \in from..Len(t) :
        /\ a + Len(attr) + 1 <= Len(t)
        /\ Ch(t, a + Len(attr)) = "="
        /\ StartsWithAtI(t, attr \o "=", a)
        /\ Ch(t, a + Len(attr) + 1) \in quotes
        /\ NextQuote(t, a + Len(attr) + 2, quotes) > 0}

\* The value of the attribute that starts at position a.
AttrValueAt(t, attr, a, quotes) ==
    SubSeq(t, a + Len(attr) + 2, NextQuote(t, a + Len(attr) + 2, quotes) - 1)

AttrEndAt(t, attr, a, quotes) == NextQuote(t, a + Len(attr) + 2, quotes)

AnyQuote == {"'", "\""}

DoubleQuote == {"\""}

\* The group of /<img[^>]*alt=['"](MDX_DIAGRAM:[^'"]+)['"][^>]*>/gi in tag t,
\* '' when the tag does not match.
ImgAltMarkerStarts(t) ==
    {a \in AttrStarts(t, "alt", 5, AnyQuote) :
        /\ StartsWithAtI(AttrValueAt(t, "alt", a, AnyQuote), ToLowerCase(MarkerPrefix), 1)
        /\ Len(AttrValueAt(t, "alt", a, AnyQuote)) > Len(MarkerPrefix)}

ImgAltMarkerAt(t, starts) ==
    IF starts = {} THEN "" ELSE AttrValueAt(t, "alt", Max(starts), AnyQuote)

ImgAltMarker(t) ==
    IF ~TagNamed(t, "img") THEN "" ELSE ImgAltMarkerAt(t, ImgAltMarkerStarts(t))

\* The token a stored diagram block is replaced by.
BlockToken(index) == "__MDX_DIAGRAM_BLOCK_" \o NatToString(index) \o "__"

\* storeDiagramBlock(marker) in state st = [md, diagramBlocks]: the text the
\* marker is replaced by, appended to st.md, and the block stored.
StoreBuiltBlock(st, block) ==
    IF block = "" THEN st
    ELSE [md |-> Append(st.md, BlockToken(Len(st.diagramBlocks))),
          diagramBlocks |-> Append(st.diagramBlocks, block)]

storeDiagramBlock(st, marker) == StoreBuiltBlock(st, buildDiagramBlock(marker))

KeepToken(st, t) == IF t = "" THEN st ELSE [st EXCEPT !.md = Append(@, t)]

ExtractAltMarker(st, t, marker) ==
    IF marker = "" THEN KeepToken(st, t) ELSE storeDiagramBlock(st, marker)

\* Extract diagram markers embedded as image alt text, in the first k tokens.
RECURSIVE ExtractAltMarkers(_, _)
ExtractAltMarkers(ts, k) ==
    IF k = 0 THEN [md |-> <<>>, diagramBlocks |-> <<>>]
    ELSE ExtractAltMarker(ExtractAltMarkers(ts, k - 1), ts[k], ImgAltMarker(ts[k]))

Base64Class == {Ch(Base64Alphabet, k) : k \in 1..Len(Base64Alphabet)} \cup {"="}

\* The length of the run of [A-Za-z0-9+/=] in t from position k.
RECURSIVE Base64Run(_, _)
Base64Run(t, k) ==
    IF k <= Len(t) /\ Ch(t, k) \in Base64Class THEN 1 + Base64Run(t, k + 1) ELSE 0

\* md.replace(/MDX_DIAGRAM:[A-Za-z0-9+/=]+/g, storeDiagramBlock) inside one
\* token, from position from on; the pieces are appended to st.md.
RECURSIVE ExtractTextMarkersIn(_, _, _)
ExtractTextMarkersAt(t, from, p, st) ==
    IF p = 0 THEN KeepToken(st, SubSeq(t, from, Len(t)))
    ELSE IF Base64Run(t, p + Len(MarkerPrefix)) = 0
         THEN ExtractTextMarkersIn(t, p + Len(MarkerPrefix),
                  KeepToken(st, SubSeq(t, from, p + Len(MarkerPrefix) - 1)))
    ELSE ExtractTextMarkersIn(t,
             p + Len(MarkerPrefix) + Base64Run(t, p + Len(MarkerPrefix)),
             storeDiagramBlock(KeepToken(st, SubSeq(t, from, p - 1)),
                 SubSeq(t, p, p + Len(MarkerPrefix) + Base64Run(t, p + Len(MarkerPrefix)) - 1)))

ExtractTextMarkersIn(t, from, st) ==
    ExtractTextMarkersAt(t, from, IndexOfFrom(t, MarkerPrefix, from), st)

ExtractTextMarker(st, t) ==
    IF Len(t) <= Len(MarkerPrefix) \/ ~Includes(t, MarkerPrefix) THEN KeepToken(st, t)
    ELSE ExtractTextMarkersIn(t, 1, st)

\* Extract diagram markers embedded as hidden text paragraphs, in the first k
\* tokens of ts; diagramBlocks holds the blocks stored before.
RECURSIVE ExtractTextMarkers(_, _, _)
ExtractTextMarkers(ts, k, diagramBlocks) ==
    IF k = 0 THEN [md |-> <<>>, diagramBlocks |-> diagramBlocks]
    ELSE ExtractTextMarker(ExtractTextMarkers(ts, k - 1, diagramBlocks), ts[k])

\* Headings
Headings(ts) ==
    ReplaceTagged(ReplaceTagged(ReplaceTagged(ReplaceTagged(ReplaceTagged(ReplaceTagged(
        ts, "h1", "# ", "\n\n"), "h2", "## ", "\n\n"), "h3", "### ", "\n\n"),
        "h4", "#### ", "\n\n"), "h5", "##### ", "\n\n"), "h6", "###### ", "\n\n")

\* Bold and italic
BoldItalic(ts) ==
    ReplaceTagged(ReplaceTagged(ReplaceTagged(ReplaceTagged(
        ts, "strong", "**", "**"), "b", "**", "**"), "em", "*", "*"), "i", "*", "*")

\* md.replace(/<a[^>]*href="([^"]*)"[^>]*>(.*?)<\/a>/gi, '[$2]($1)')
RECURSIVE LinksFrom(_, _)
LinksFrom(ts, k) ==
    IF k > Len(ts) THEN <<>>
    ELSE IF /\ TagNamed(ts[k], "a")
            /\ AttrStarts(ts[k], "href", 3, DoubleQuote) # {}
            /\ CloseIndex(ts, k + 1, "a") > 0
         THEN <<"[">> \o SubSeq(ts, k + 1, CloseIndex(ts, k + 1, "a") - 1)
                  \o <<"](" \o AttrValueAt(ts[k], "href",
                                   Max(AttrStarts(ts[k], "href", 3, DoubleQuote)),
                                   DoubleQuote) \o ")">>
                  \o LinksFrom(ts, CloseIndex(ts, k + 1, "a") + 1)
         ELSE <<ts[k]>> \o LinksFrom(ts, k + 1)

\* The places of src= in tag t that an alt= follows.
SrcBeforeAlt(t) ==
    {a \in AttrStarts(t, "src", 5, DoubleQuote) :
        AttrStarts(t, "alt", AttrEndAt(t, "src", a, DoubleQuote) + 1, DoubleQuote) # {}}

\* md.replace(/<img[^>]*src="([^"]*)"[^>]*alt="([^"]*)"[^>]*\/?>/gi, '![$2]($1)')
ImageWithAlt(t) ==
    IF ~TagNamed(t, "img") \/ SrcBeforeAlt(t) = {} THEN t
    ELSE "![" \o AttrValueAt(t, "alt",
                     Max(AttrStarts(t, "alt",
                             AttrEndAt(t, "src", Max(SrcBeforeAlt(t)), DoubleQuote) + 1,
                             DoubleQuote)), DoubleQuote)
              \o "](" \o AttrValueAt(t, "src", Max(SrcBeforeAlt(t)), DoubleQuote) \o ")"

\* md.replace(/<img[^>]*src="([^"]*)"[^>]*\/?>/gi, '![]($1)')
ImageWithoutAlt(t) ==
    IF ~TagNamed(t, "img") \/ AttrStarts(t, "src", 5, DoubleQuote) = {} THEN t
    ELSE "![](" \o AttrValueAt(t, "src", Max(AttrStarts(t, "src", 5, DoubleQuote)),
                       DoubleQuote) \o ")"

\* Images
Images(ts) == [k \in 1..Len(ts) |-> ImageWithoutAlt(ImageWithAlt(ts[k]))]

\* Lists
Lists(ts) ==
    ReplaceTagged(
        ReplaceCloseTag(ReplaceOpenTag(ReplaceCloseTag(ReplaceOpenTag(
            ts, "ul", "\n"), "ul", "\n"), "ol", "\n"), "ol", "\n"),
        "li", "- ", "\n")

\* /<br\s*\/?>/ with the flag i
IsLineBreakTag(t) ==
    /\ TagNamed(t, "br")
    /\ \E n \in 0..(Len(t) - 4) :
        /\ \A k \in 4..(3 + n) : IsSpace(Ch(t, k))
        /\ SubSeq(t, 4 + n, Len(t)) \in {">", "/>"}

\* Line breaks
LineBreaks(ts) == [k \in 1..Len(ts) |-> IF IsLineBreakTag(ts[k]) THEN "\n" ELSE ts[k]]

\* Paragraphs, line breaks, blockquotes, code
BlockTags(ts) ==
    ReplaceTagged(ReplaceTagged(ReplaceTagged(
        LineBreaks(ReplaceTagged(ts, "p", "", "\n\n")),
        "blockquote", "> ", "\n\n"), "code", Tick, Tick),
        "pre", Fence \o "\n", "\n" \o Fence \o "\n\n")

\* md.replace(/<[^>]+>/g, ''): what is left is text.
RECURSIVE StripTags(_)
StripTags(ts) ==
    IF ts = <<>> THEN ""
    ELSE (IF IsTag(Head(ts)) /\ Len(Head(ts)) >= 3 THEN "" ELSE Head(ts))
             \o StripTags(Tail(ts))

\* s.replace(/pat/g, rep) for a pattern and a replacement of plain characters
RECURSIVE ReplaceAll(_, _, _)
ReplaceAllAt(s, pat, rep, k) ==
    IF k = 0 THEN s
    ELSE SubSeq(s, 1, k - 1) \o rep \o ReplaceAll(SubSeq(s, k + Len(pat), Len(s)), pat, rep)

ReplaceAll(s, pat, rep) == ReplaceAllAt(s, pat, rep, IndexOfFrom(s, pat, 1))

\* Decode HTML entities
DecodeEntities(s) ==
    ReplaceAll(ReplaceAll(ReplaceAll(ReplaceAll(ReplaceAll(ReplaceAll(
        s, "&amp;", "&"), "&lt;", "<"), "&gt;", ">"), "&quot;", "\""), "&#39;", "'"),
        "&nbsp;", " ")

\* md.replace(/\n{3,}/g, '\n\n')
RECURSIVE CollapseNewlines(_)
CollapseNewlinesAt(s, k) ==
    IF k = 0 THEN s
    ELSE SubSeq(s, 1, k - 1) \o "\n\n"
             \o CollapseNewlines(SubSeq(s, k + RunOf(s, k, "\n"), Len(s)))

CollapseNewlines(s) == CollapseNewlinesAt(s, IndexOfFrom(s, "\n\n\n", 1))

\* A replacement string as String.prototype.replace reads it when the pattern
\* has no group: $$ is $, $& the match, $ and a backquote the text before the
\* match, $' the text after it.
RECURSIVE ExpandReplacement(_, _, _, _)
ExpandReplacement(rep, matched, before, after) ==
    IF rep = "" THEN ""
    ELSE IF StartsWith(rep, "$$")
         THEN "$" \o ExpandReplacement(SubSeq(rep, 3, Len(rep)), matched, before, after)
    ELSE IF StartsWith(rep, "$&")
         THEN matched \o ExpandReplacement(SubSeq(rep, 3, Len(rep)), matched, before, after)
    ELSE IF StartsWith(rep, "$" \o Tick)
         THEN before \o ExpandReplacement(SubSeq(rep, 3, Len(rep)), matched, before, after)
    ELSE IF StartsWith(rep, "$'")
         THEN after \o ExpandReplacement(SubSeq(rep, 3, Len(rep)), matched, before, after)
    ELSE Ch(rep, 1) \o ExpandReplacement(Tail(rep), matched, before, after)

\* md.replace(new RegExp(token, 'g'), block) from position from on
RECURSIVE RestoreFrom(_, _, _, _)
RestoreAt(s, from, token, block, k) ==
    IF k = 0 THEN SubSeq(s, from, Len(s))
    ELSE SubSeq(s, from, k - 1)
             \o (IF Includes(block, "$")
                 THEN ExpandReplacement(block, token, SubSeq(s, 1, k - 1),
                                        SubSeq(s, k + Len(token), Len(s)))
                 ELSE block)
             \o RestoreFrom(s, k + Len(token), token, block)

RestoreFrom(s, from, token, block) ==
    RestoreAt(s, from, token, block, IndexOfFrom(s, token, from))

\* Restore diagram code blocks.
RECURSIVE RestoreBlocks(_, _, _)
RestoreBlocks(s, diagramBlocks, index) ==
    IF index >= Len(diagramBlocks) THEN s
    ELSE RestoreBlocks(
             RestoreFrom(s, 1, BlockToken(index), diagramBlocks[index + 1]),
             diagramBlocks, index + 1)

\* The second marker extraction on the result st of the first.
ExtractTextMarkersOf(st) == ExtractTextMarkers(st.md, Len(st.md), st.diagramBlocks)

\* The two marker extractions.
ExtractMarkers(ts) == ExtractTextMarkersOf(ExtractAltMarkers(ts, Len(ts)))

\* From the headings to the clean-up of newlines and the trim.
MarkupToText(ts) ==
    Trim(CollapseNewlines(DecodeEntities(StripTags(
        BlockTags(Lists(Images(LinksFrom(BoldItalic(Headings(ts)), 1))))))))

RestoredText(st) == RestoreBlocks(MarkupToText(st.md), st.diagramBlocks, 0)

htmlToMarkdown(html) == RestoredText(ExtractMarkers(Tokenize(html)))

NoMd == [html |-> "", out |-> ""]

\* The HTML mammoth gave and the Markdown made of it.
Reversed(html) == [html |-> html, out |-> htmlToMarkdown(html)]

\* docxToMarkdown(docxPath) on the file markdownToDocx has written.
DocxToMarkdown ==
    /\ pc = "written"
    /\ task = "roundtrip"
    /\ \E shape \in MammothShapes : md' = Reversed(MammothHtml(children, shape))
    /\ pc' = "reversed"
    /\ UNCHANGED <<task, lines, i, blocks, steps, sessions, children, blockIdx, asm, rnd,
                   log, codec>>
    /\ UNCHANGED <<inl, probe, scale>>

--------------------------------------------------------------------------
(* Marker codec calls *)

NoCodec ==
    [op |-> "none", type |-> "", code |-> "", marker |-> "", out |-> NotAMarker,
     block |-> ""]

\* encodeDiagramMarker(type, code), then buildDiagramBlock on its result.
CodecRoundTrip ==
    /\ pc = "call"
    /\ codec.op = "roundtrip"
    /\ LET marker == encodeDiagramMarker(codec.type, codec.code)
       IN  codec' = [codec EXCEPT !.marker = marker,
                                  !.out = DecodeDiagramMarker(marker),
                                  !.block = buildDiagramBlock(marker)]
    /\ pc' = "done"
    /\ UNCHANGED <<task, lines, i, blocks, steps, sessions, children, blockIdx, asm, rnd,
                   log, md>>
    /\ UNCHANGED <<inl, probe, scale>>

\* buildDiagramBlock on a string that came from anywhere.
CodecDecode ==
    /\ pc = "call"
    /\ codec.op = "decode"
    /\ codec' = [codec EXCEPT !.out = DecodeDiagramMarker(codec.marker),
                              !.block = buildDiagramBlock(codec.marker)]
    /\ pc' = "done"
    /\ UNCHANGED <<task, lines, i, blocks, steps, sessions, children, blockIdx, asm, rnd,
                   log, md>>
    /\ UNCHANGED <<inl, probe, scale>>

--------------------------------------------------------------------------
(* Inline parser: parseInlineMarkdownSegments *)

Segment(type, text, href) == [type |-> type, text |-> text, href |-> href]

\* The length of the longest run of characters other than c in s from position k.
RunUntil(s, k, c) ==
    LET j == IndexOfFrom(s, c, k)
    IN  IF j = 0 THEN Len(s) - k + 1 ELSE j - k

\* c[^c]+c at position p of s, for a delimiter c of one character: the
\* position after the match, 0 when there is none.
DelimitedEnd(s, p, c) ==
    LET r == RunUntil(s, p + 1, c)
    IN  IF StartsWithAt(s, c, p) /\ r >= 1 /\ StartsWithAt(s, c, p + 1 + r)
        THEN p + r + 2 ELSE 0

\* \*\*[^*]+\*\* at position p
BoldEnd(s, p) ==
    LET r == RunUntil(s, p + 2, "*")
    IN  IF StartsWithAt(s, "**", p) /\ r >= 1 /\ StartsWithAt(s, "**", p + 2 + r)
        THEN p + r + 4 ELSE 0

\* \[[^\]]+\]\([^)]+\) at position p
LinkEnd(s, p) ==
    LET r == RunUntil(s, p + 1, "]")
        q == RunUntil(s, p + r + 3, ")")
    IN  IF /\ StartsWithAt(s, "[", p)
           /\ r >= 1
           /\ StartsWithAt(s, "](", p + 1 + r)
           /\ q >= 1
           /\ StartsWithAt(s, ")", p + r + q + 3)
        THEN p + r + q + 4 ELSE 0

\* The pattern at position p, its alternatives in their order: the position
\* after the match, 0 when none matches there.
MatchEnd(s, p) ==
    IF BoldEnd(s, p) # 0 THEN BoldEnd(s, p)
    ELSE IF DelimitedEnd(s, p, "*") # 0 THEN DelimitedEnd(s, p, "*")
    ELSE IF DelimitedEnd(s, p, Tick) # 0 THEN DelimitedEnd(s, p, Tick)
    ELSE LinkEnd(s, p)

\* pattern.exec(text) with pattern.lastIndex = lastIndex (0-based): the
\* 1-based position of the leftmost match, 0 for null.
ExecFrom(text, lastIndex) ==
    LET hits == {p \in (lastIndex + 1)..Len(text) : MatchEnd(text, p) # 0}
    IN  IF hits = {} THEN 0 ELSE Min(hits)

\* m.slice(a, -b)
Inner(m, a, b) == SubSeq(m, a + 1, Len(m) - b)

\* matched.match(/^\[([^\]]+)\]\(([^)]+)\)$/) and the segment pushed for it
LinkSegments(matched) ==
    LET r == RunUntil(matched, 2, "]")
    IN  IF LinkEnd(matched, 1) = Len(matched) + 1
        THEN <<Segment("link", SubSeq(matched, 2, r + 1),
                       SubSeq(matched, r + 4, Len(matched) - 1))>>
        ELSE <<>>

\* The if / else-if chain on the matched text.
MatchSegments(matched) ==
    IF StartsWith(matched, "**") /\ EndsWith(matched, "**")
        THEN <<Segment("bold", Inner(matched, 2, 2), "")>>
    ELSE IF StartsWith(matched, "*") /\ EndsWith(matched, "*")
        THEN <<Segment("italic", Inner(matched, 1, 1), "")>>
    ELSE IF StartsWith(matched, Tick) /\ EndsWith(matched, Tick)
        THEN <<Segment("code", Inner(matched, 1, 1), "")>>
    ELSE IF StartsWith(matched, "[") THEN LinkSegments(matched)
    ELSE <<>>

NoTextBefore(text, lastIndex, index) == <<>>

\* if (match.index > lastIndex) segments.push(text.slice(lastIndex, match.index))
\* (index is 0-based)
TextBefore(text, lastIndex, index) ==
    IF index > lastIndex
    THEN <<Segment("text", SubSeq(text, lastIndex + 1, index), "")>>
    ELSE <<>>

NoInline == [pc |-> "idle", text |-> "", lastIndex |-> 0, segments |-> <<>>, result |-> <<>>]

InlineCall(text) == [NoInline EXCEPT !.pc = "enter", !.text = text]

\* An entry that returns no segment for the empty text.
InlineEnterEmptyResult ==
    /\ inl.pc = "enter"
    /\ inl' = [inl EXCEPT !.pc = IF inl.text = "" THEN "done" ELSE "scan"]
    /\ pc' = IF inl.text = "" THEN "done" ELSE pc
    /\ UNCHANGED <<task, lines, i, blocks, steps, sessions, children, blockIdx, asm, rnd,
                   log, codec, md, probe, scale>>

\* if (!text || text.length === 0) return [{ type: 'text', text: '' }]
InlineEnter ==
    /\ inl.pc = "enter"
    /\ IF inl.text = ""
       THEN /\ inl' = [inl EXCEPT !.pc = "done", !.result = <<Segment("text", "", "")>>]
            /\ pc' = "done"
       ELSE /\ inl' = [inl EXCEPT !.pc = "scan"]
            /\ pc' = pc
    /\ UNCHANGED <<task, lines, i, blocks, steps, sessions, children, blockIdx, asm, rnd,
                   log, codec, md, probe, scale>>

\* One iteration of `while ((match = pattern.exec(text)) !== null)`.
InlineExec ==
    /\ inl.pc = "scan"
    /\ ExecFrom(inl.text, inl.lastIndex) # 0
    /\ LET p == ExecFrom(inl.text, inl.lastIndex)
           end == MatchEnd(inl.text, p)
       IN  inl' = [inl EXCEPT
                     !.segments = @ \o TextBefore(inl.text, inl.lastIndex, p - 1)
                                    \o MatchSegments(SubSeq(inl.text, p, end - 1)),
                     !.lastIndex = end - 1]
    /\ UNCHANGED <<task, pc, lines, i, blocks, steps, sessions, children, blockIdx, asm,
                   rnd, log, codec, md, probe, scale>>

\* The segments after the loop: the rest of the text, if any, is pushed.
WithRest(r) ==
    IF r.lastIndex < Len(r.text)
    THEN Append(r.segments, Segment("text", SubSeq(r.text, r.lastIndex + 1, Len(r.text)), ""))
    ELSE r.segments

\* exec gave null: push the rest and
\* return segments.length > 0 ? segments : [{ type: 'text', text }]
InlineReturn ==
    /\ inl.pc = "scan"
    /\ ExecFrom(inl.text, inl.lastIndex) = 0
    /\ inl' = [inl EXCEPT !.pc = "done",
                          !.segments = WithRest(inl),
                          !.result = IF Len(WithRest(inl)) > 0 THEN WithRest(inl)
                                     ELSE <<Segment("text", inl.text, "")>>]
    /\ pc' = "done"
    /\ UNCHANGED <<task, lines, i, blocks, steps, sessions, children, blockIdx, asm, rnd,
                   log, codec, md, probe, scale>>

--------------------------------------------------------------------------
(* Image probe: getImageDimensions *)

NoDimensions == [ok |-> FALSE, width |-> 0, height |-> 0]

Dimensions(width, height) == [ok |-> TRUE, width |-> width, height |-> height]

\* buffer.length below which nothing is probed
MinProbeLength == 24

\* buffer[o], o counted from 0
ByteAt(b, o) == b[o + 1]

\* A read of the two low bytes only of the four at o.
ReadLowUInt16BE(b, o) == ByteAt(b, o + 2) * 256 + ByteAt(b, o + 3)

\* buffer.readUInt32BE(o)
ReadUInt32BE(b, o) ==
    ((ByteAt(b, o) * 256 + ByteAt(b, o + 1)) * 256 + ByteAt(b, o + 2)) * 256 + ByteAt(b, o + 3)

\* buffer.readUInt16BE(o)
ReadUInt16BE(b, o) == ByteAt(b, o) * 256 + ByteAt(b, o + 1)

\* buffer[0..3] === 0x89 0x50 0x4e 0x47
HasPngMagic(b) ==
    ByteAt(b, 0) = 137 /\ ByteAt(b, 1) = 80 /\ ByteAt(b, 2) = 78 /\ ByteAt(b, 3) = 71

\* buffer[0] === 0xff && buffer[1] === 0xd8
HasJpegMagic(b) == ByteAt(b, 0) = 255 /\ ByteAt(b, 1) = 216

\* marker in 0xc0..0xcf other than 0xc4, 0xc8, 0xcc
IsSofMarker(marker) == marker >= 192 /\ marker <= 207 /\ marker \notin {196, 200, 204}

\* The while loop over the JPEG segments from offset on.
RECURSIVE JpegScan(_, _)
JpegScan(b, offset) ==
    IF ~(offset + 9 < Len(b)) THEN NoDimensions
    ELSE IF ByteAt(b, offset) # 255 THEN JpegScan(b, offset + 1)
    ELSE IF IsSofMarker(ByteAt(b, offset + 1)) /\ offset + 8 < Len(b)
        THEN Dimensions(ReadUInt16BE(b, offset + 7), ReadUInt16BE(b, offset + 5))
    ELSE IF ReadUInt16BE(b, offset + 2) < 2 THEN NoDimensions
    ELSE JpegScan(b, offset + 2 + ReadUInt16BE(b, offset + 2))

getImageDimensions(b) ==
    IF Len(b) < MinProbeLength THEN NoDimensions
    ELSE IF HasPngMagic(b)
        THEN Dimensions(ReadUInt32BE(b, 16), ReadUInt32BE(b, 20))
    ELSE IF HasJpegMagic(b) THEN JpegScan(b, 2)
    ELSE NoDimensions

NoProbe == [pc |-> "idle", buffer |-> <<>>, result |-> NoDimensions]

ProbeCall(buffer) == [NoProbe EXCEPT !.pc = "call", !.buffer = buffer]

\* getImageDimensions(buffer)
GetImageDimensions ==
    /\ probe.pc = "call"
    /\ probe' = [probe EXCEPT !.pc = "done", !.result = getImageDimensions(probe.buffer)]
    /\ pc' = "done"
    /\ UNCHANGED <<task, lines, i, blocks, steps, sessions, children, blockIdx, asm, rnd,
                   log, codec, md, inl, scale>>

--------------------------------------------------------------------------
(* Inputs *)

\* All strings over the characters cs of length at most n.
RECURSIVE StringsUpTo(_, _)
StringsUpTo(cs, n) ==
    IF n = 0 THEN {""}
    ELSE LET shorter == StringsUpTo(cs, n - 1)
         IN  shorter \cup {t \o c : t \in shorter, c \in cs}

\* All sequences over S of length 1..n.
SeqsUpTo(S, n) == UNION {[1..k -> S] : k \in 1..n}

RECURSIVE Flatten(_)
Flatten(ss) == IF ss = <<>> THEN <<>> ELSE Head(ss) \o Flatten(Tail(ss))

MaxSourceLen == 3

SourceChars == {"A", " ", "\n", "\"", "\\", "$"}

Sources == StringsUpTo(SourceChars, MaxSourceLen)

\* Texts a foreign or damaged marker may carry as its payload.
PayloadTexts ==
    {"", "not json", "{", "null", "0", "12", "true", "\"text\"", "[]", "[1,\"a\"]", "{}",
     "{\"type\":\"mermaid\"}", "{\"code\":\"A\"}", "{\"type\":1,\"code\":\"A\"}",
     "{\"type\":\"mermaid\",\"code\":null}", "{\"type\":\"mermaid\",\"code\":{\"a\":\"b\"}}",
     "{\"type\":\"mermaid\",\"code\":\"A\"} x", "{\"type\":\"mermaid\",\"code\":\"A\n\"}",
     "{\"type\":\" \",\"code\":\"A\"}", "{\"code\":\"A\",\"type\":\"uml\",\"more\":[{}]}",
     " {\"type\" : \"plantuml\" , \"code\" : \"B\\u0041\" } "}

ValidMarker == encodeDiagramMarker("mermaid", "A")

\* Strings handed to the decoder: no prefix, a wrong prefix, a payload that is
\* no base64 of JSON, every truncation of a valid marker, and valid markers.
DecoderInputs ==
    {"", "abc", "MDX_DIAGRAM", "mdx_diagram:e30=", " " \o ValidMarker, "MDX_DIAGRAM:",
     "MDX_DIAGRAM:!!!!", "MDX_DIAGRAM:e30", ValidMarker \o "=", ValidMarker}
    \cup {MarkerPrefix \o Base64Encode(Utf8Bytes(t)) : t \in PayloadTexts}
    \cup {SubSeq(ValidMarker, 1, k) : k \in 1..Len(ValidMarker)}

MaxLines == 3

\* Lines that start, almost start, or do not start each construct.
ParserLines ==
    {"", "text", "b ", "# H", "#x", "---", "~~~mermaid", "~~~", "> q", "- a", "1. b",
     "a|b", "|---|", "![a](b)", "![x"}

\* Runs of plain lines around the cap of the paragraph accumulator.
LongParagraphs == {[k \in 1..n |-> "text"] : n \in {ParagraphCap + 1, ParagraphCap + 2}}

\* A line with a pipe, a separator row, and up to two more lines with pipes.
TableInputs ==
    {<<header, separator>> \o rows :
        header \in {"a|b", "| Name | Score |", "# a|b", "- a|b"},
        separator \in {"|---|", "---", "| --- | :---: |"},
        rows \in {<<>>} \cup SeqsUpTo({"c|d", "| Alice | 10 |", " |x"}, 2)}

\* A fence line with a language, fenced lines, and the input's end: without a
\* closing fence, with one, with a line after it.
FenceInputs ==
    {<<opener>> \o body \o rest :
        opener \in {"~~~mermaid", "~~~ Mermaid ", "~~~plantuml", "~~~UML", "~~~js", "~~~",
                    "~~~mermaidx", "~~~ JS"},
        body \in {<<>>, <<"A">>, <<"@startuml", "A", "@enduml">>, <<"@enduml", "@startuml">>,
                  <<"x @startuml@enduml y">>, <<"@startuml">>, <<"", " b ", "# H">>},
        rest \in {<<>>, <<"~~~">>, <<"~~~js", "text">>}}

\* The longest side of the small images that are scaled.
MaxSide == 8

\* The calls of scaleToMaxWidth: every small size at every small maximum, and
\* sizes around the 600 the assembler passes, with heights that scale to a
\* half.
ScaleCalls ==
    ((1..MaxSide) \X (0..MaxSide) \X (1..MaxSide))
    \cup ({599, 600, 601, 800, 880, 1200, 1600} \X {0, 1, 11, 45, 401, 1200}
              \X {MaxImageWidth})

MaxInlinePieces == 3

\* Pieces of inline text: plain text, lone delimiters, and whole tokens.
InlinePieces ==
    {"a", " b", "*", "**", Tick, "[", "](", ")", "**b**", "*i*", Tick \o "c" \o Tick,
     "[t](u)"}

RECURSIVE Concat(_)
Concat(ss) == IF ss = <<>> THEN "" ELSE Head(ss) \o Concat(Tail(ss))

InlineTexts == {""} \cup {Concat(ps) : ps \in SeqsUpTo(InlinePieces, MaxInlinePieces)}

\* How many bytes a probed buffer has beyond the 24 that are read.
MaxExtraBytes == 2

\* The first eight bytes of a file: the PNG signature, its first four bytes
\* only, a near miss, and the start of a JPEG file.
FileStarts ==
    {<<137, 80, 78, 71, 13, 10, 26, 10>>, <<137, 80, 78, 71, 0, 0, 0, 0>>,
     <<137, 80, 78, 70, 13, 10, 26, 10>>, <<255, 216, 255, 224, 0, 4, 0, 0>>}

\* Four bytes of a dimension: 320, 180, 0, 65536 and the largest value whose
\* first byte is below 128.
DimensionBytes ==
    {<<0, 0, 1, 64>>, <<0, 0, 0, 180>>, <<0, 0, 0, 0>>, <<0, 1, 0, 0>>,
     <<127, 255, 255, 255>>}

\* JPEG files: a frame header at once, one after another segment, one whose
\* segment length is below 2, one with bytes before the first marker, one
\* whose frame header ends with the 24th byte.
JpegFiles ==
    {<<255, 216, 255, 192, 0, 17, 8, 0, 180, 1, 64, 3, 1, 34, 0, 2, 17, 1, 3, 17, 1, 0, 0, 0>>,
     <<255, 216, 255, 224, 0, 4, 0, 0, 255, 194, 0, 17, 8, 0, 180, 1, 64, 3, 1, 34, 0, 2, 17,
       1>>,
     <<255, 216, 255, 224, 0, 1, 0, 0, 255, 192, 0, 17, 8, 0, 180, 1, 64, 3, 1, 34, 0, 2, 17,
       1>>,
     <<255, 216, 0, 0, 255, 196, 0, 2, 255, 201, 0, 11, 8, 1, 64, 0, 180, 1, 1, 17, 0, 0, 0,
       0>>,
     <<255, 216, 255, 224, 0, 11, 74, 70, 73, 70, 0, 1, 1, 0, 0, 255, 192, 0, 17, 8, 0, 180,
       1, 64>>}

ZeroBytes(n) == [k \in 1..n |-> 0]

\* Whole files of 24 bytes and more: for PNG the start, the IHDR length and
\* type, the width and the height, then zero bytes.
ProbeFiles ==
    {start \o <<0, 0, 0, 13, 73, 72, 68, 82>> \o width \o height \o ZeroBytes(MaxExtraBytes) :
        start \in FileStarts, width \in DimensionBytes, height \in DimensionBytes}
    \cup {f \o ZeroBytes(MaxExtraBytes) : f \in JpegFiles}

\* The buffers probed: every file cut at every length up to 24 + MaxExtraBytes.
ProbeBuffers ==
    {SubSeq(f, 1, n) : f \in ProbeFiles, n \in 0..(MinProbeLength + MaxExtraBytes)}

MaxFragments == 3

\* Markdown fragments a document is put together from: diagrams (one whose
\* source ends in blanks, one with no source), code, text, heading, image.
Fragments ==
    {<<"~~~mermaid", "A", "~~~">>, <<"~~~plantuml", "B ", "", "~~~">>,
     <<"~~~mermaid", "~~~">>, <<"~~~js", "x", "~~~">>, <<"text">>, <<"# H">>,
     <<"![a](b)">>}

MaxRoundTripFragments == 2

\* Fragments of the documents that are converted and converted back.
RoundTripFragments ==
    {<<"~~~mermaid", "A", "~~~">>, <<"~~~plantuml", "B ", "", "~~~">>,
     <<"~~~js", "x", "~~~">>, <<"# H">>, <<"![a](b)">>}

Sessions(doc) == [doc |-> doc, own |-> NoSession]

--------------------------------------------------------------------------
(* Specifications *)

\* parseMarkdownBlocks(content), content being the lines joined by '\n'.
InitParse ==
    /\ task = "parse"
    /\ pc = "parse"
    /\ lines \in SeqsUpTo(ParserLines, MaxLines) \cup LongParagraphs \cup TableInputs
                  \cup FenceInputs
    /\ i = 0
    /\ blocks = <<>>
    /\ steps = <<>>
    /\ sessions = Sessions(NoSession)
    /\ children = <<>>
    /\ blockIdx = 0
    /\ asm = AsmIdle
    /\ rnd = RenderIdle
    /\ log = <<>>
    /\ codec = NoCodec
    /\ md = NoMd
    /\ inl = NoInline
    /\ probe = NoProbe
    /\ scale = NoScale

NextParse == ParseIterate \/ ParseReturn

SpecParse == InitParse /\ [][NextParse]_vars

\* encodeDiagramMarker / buildDiagramBlock on their own.
InitCodec ==
    /\ task = "codec"
    /\ pc = "call"
    /\ codec \in {[NoCodec EXCEPT !.op = "roundtrip", !.type = t, !.code = c] :
                      t \in DiagramTypes, c \in Sources}
                 \cup {[NoCodec EXCEPT !.op = "decode", !.marker = m] : m \in DecoderInputs}
    /\ lines = <<>>
    /\ i = 0
    /\ blocks = <<>>
    /\ steps = <<>>
    /\ sessions = Sessions(NoSession)
    /\ children = <<>>
    /\ blockIdx = 0
    /\ asm = AsmIdle
    /\ rnd = RenderIdle
    /\ log = <<>>
    /\ md = NoMd
    /\ inl = NoInline
    /\ probe = NoProbe
    /\ scale = NoScale

NextCodec == CodecRoundTrip \/ CodecDecode

SpecCodec == InitCodec /\ [][NextCodec]_vars

\* renderDiagramToPngBuffer(type, code, sharedBrowser?) called on its own, with
\* or without a session the caller has opened.
InitRender ==
    /\ task = "render"
    /\ pc = "render"
    /\ \E t \in DiagramTypes, c \in {"A", "B\n"}, shared \in {"null", "doc"} :
        /\ rnd = RenderCall(t, c, shared)
        /\ sessions = Sessions(IF shared = "doc" THEN OpenSession ELSE NoSession)
    /\ lines = <<>>
    /\ i = 0
    /\ blocks = <<>>
    /\ steps = <<>>
    /\ children = <<>>
    /\ blockIdx = 0
    /\ asm = AsmIdle
    /\ log = <<>>
    /\ codec = NoCodec
    /\ md = NoMd
    /\ inl = NoInline
    /\ probe = NoProbe
    /\ scale = NoScale

NextRender ==
    RenderOpen \/ RenderLoad \/ RenderWait \/ RenderMeasure \/ RenderShot \/ RenderFinally

SpecRender == InitRender /\ [][NextRender]_vars

\* markdownToDocx(content, outputPath, options)
Init ==
    /\ task = "docx"
    /\ pc = "parse"
    /\ lines \in {Flatten(fs) : fs \in SeqsUpTo(Fragments, MaxFragments)}
    /\ i = 0
    /\ blocks = <<>>
    /\ steps = <<>>
    /\ sessions = Sessions(NoSession)
    /\ children = <<>>
    /\ blockIdx = 0
    /\ asm = AsmIdle
    /\ rnd = RenderIdle
    /\ log = <<>>
    /\ codec = NoCodec
    /\ md = NoMd
    /\ inl = NoInline
    /\ probe = NoProbe
    /\ scale = NoScale

Next ==
    \/ ParseIterate
    \/ ParseReturn
    \/ AsmScan
    \/ AsmLaunch
    \/ AsmBlock
    \/ RenderOpen
    \/ RenderLoad
    \/ RenderWait
    \/ RenderMeasure
    \/ RenderShot
    \/ RenderFinally
    \/ AsmAfterRender
    \/ AsmLoopEnd
    \/ AsmFinally
    \/ AsmPack

Spec == Init /\ [][Next]_vars

\* The steps of markdownToDocx after the parse, but for the one that takes
\* the renderer's result.
AsmStep ==
    \/ AsmScan
    \/ AsmLaunch
    \/ AsmBlock
    \/ RenderOpen
    \/ RenderLoad
    \/ RenderWait
    \/ RenderMeasure
    \/ RenderShot
    \/ RenderFinally
    \/ AsmLoopEnd
    \/ AsmFinally
    \/ AsmPack

\* AsmAfterRender is enabled: the renderer has returned to markdownToDocx.
ResultPending == pc = "render" /\ task \in {"docx", "roundtrip"} /\ rnd.pc = "returned"

\* The same conversion with time passing: once the blocks are parsed, every
\* awaited call settles (each has a timeout of its own or of the protocol)
\* and the function goes on.  The last conjunct is WF_vars(AsmAfterRender)
\* written with the action's guard: the step is the only one enabled where
\* the guard holds, and it always leaves that state.
SpecLive == Init /\ [][Next]_vars /\ WF_vars(AsmStep) /\ []<>(~ResultPending)

\* parseInlineMarkdownSegments(text)
InitInline ==
    /\ task = "inline"
    /\ pc = "inline"
    /\ inl \in {InlineCall(t) : t \in InlineTexts}
    /\ lines = <<>>
    /\ i = 0
    /\ blocks = <<>>
    /\ steps = <<>>
    /\ sessions = Sessions(NoSession)
    /\ children = <<>>
    /\ blockIdx = 0
    /\ asm = AsmIdle
    /\ rnd = RenderIdle
    /\ log = <<>>
    /\ codec = NoCodec
    /\ md = NoMd
    /\ probe = NoProbe
    /\ scale = NoScale

NextInline == InlineEnter \/ InlineExec \/ InlineReturn

SpecInline == InitInline /\ [][NextInline]_vars

\* getImageDimensions(buffer)
InitProbe ==
    /\ task = "probe"
    /\ pc = "probe"
    /\ probe \in {ProbeCall(b) : b \in ProbeBuffers}
    /\ lines = <<>>
    /\ i = 0
    /\ blocks = <<>>
    /\ steps = <<>>
    /\ sessions = Sessions(NoSession)
    /\ children = <<>>
    /\ blockIdx = 0
    /\ asm = AsmIdle
    /\ rnd = RenderIdle
    /\ log = <<>>
    /\ codec = NoCodec
    /\ md = NoMd
    /\ inl = NoInline
    /\ scale = NoScale

NextProbe == GetImageDimensions

SpecProbe == InitProbe /\ [][NextProbe]_vars

\* scaleToMaxWidth(width, height, maxWidth)
InitScale ==
    /\ task = "scale"
    /\ pc = "scale"
    /\ scale \in {ScaleCall(c[1], c[2], c[3]) : c \in ScaleCalls}
    /\ lines = <<>>
    /\ i = 0
    /\ blocks = <<>>
    /\ steps = <<>>
    /\ sessions = Sessions(NoSession)
    /\ children = <<>>
    /\ blockIdx = 0
    /\ asm = AsmIdle
    /\ rnd = RenderIdle
    /\ log = <<>>
    /\ codec = NoCodec
    /\ md = NoMd
    /\ inl = NoInline
    /\ probe = NoProbe

NextScale == ScaleToMaxWidth

SpecScale == InitScale /\ [][NextScale]_vars

\* markdownToDocx(content, outputPath, options), then docxToMarkdown(outputPath)
InitRoundTrip ==
    /\ task = "roundtrip"
    /\ pc = "parse"
    /\ lines \in {Flatten(fs) : fs \in SeqsUpTo(RoundTripFragments, MaxRoundTripFragments)}
    /\ i = 0
    /\ blocks = <<>>
    /\ steps = <<>>
    /\ sessions = Sessions(NoSession)
    /\ children = <<>>
    /\ blockIdx = 0
    /\ asm = AsmIdle
    /\ rnd = RenderIdle
    /\ log = <<>>
    /\ codec = NoCodec
    /\ md = NoMd
    /\ inl = NoInline
    /\ probe = NoProbe
    /\ scale = NoScale

NextRoundTrip == Next \/ DocxToMarkdown

SpecRoundTrip == InitRoundTrip /\ [][NextRoundTrip]_vars

--------------------------------------------------------------------------
(* Properties of the block parser *)

\* C1: parseMarkdownBlocks is total; in particular the line index strictly
\* advances on every iteration of the main loop, also for a non-blank line
\* that matches no construct and that the paragraph accumulator rejects.
\* (steps holds one record per iteration: the index before and after it.)
C1_LineIndexAdvances ==
    \A k \in 1..Len(steps) : steps[k].to > steps[k].from

--------------------------------------------------------------------------
(* Properties of the renderer *)

\* C9: renderDiagramToPngBuffer never closes a session passed in by the
\* caller: on every exit path (success, null result, exception) the shared
\* session is left open, and only a session the renderer launched itself is
\* closed by it.
C9_SharedSessionLeftOpen ==
    task = "render" =>
        /\ sessions.doc.closes = 0
        /\ rnd.browser = "doc" => sessions.doc = OpenSession
        /\ sessions.own.closes > 0 => rnd.ownsBrowser

\* A call with a shared session has ended in an exception, the session open.
C9_Witness ==
    /\ task = "render"
    /\ rnd.pc = "returned"
    /\ rnd.browser = "doc"
    /\ rnd.result = "threw"
    /\ sessions.doc = OpenSession

--------------------------------------------------------------------------
(* Properties of the assembler *)

\* Block k is a diagram block whose render succeeded.
Rendered(k) ==
    \E e \in 1..Len(log) : log[e] = Event("render-end", k, "image")

\* The marker of block k.
MarkerOf(k) == encodeDiagramMarker(blocks[k].diagramType, blocks[k].content)

\* The renderer has returned to the diagram case of the current block.
RenderReturned == pc = "render" /\ rnd.pc = "returned"

\* The render of block k was attempted and failed.
RenderFailed(k) ==
    \E e \in 1..Len(log) :
        log[e] \in {Event("render-end", k, "null"), Event("render-end", k, "threw")}

\* C5: when rendering a diagram block fails (the renderer returns null or
\* throws, or no browser is available), the assembler emits exactly one
\* literal code-style paragraph holding the block's source, no image and no
\* marker element, and goes on with the next block.
C5_FailedRenderGivesLiteral ==
    [][(\/ RenderReturned /\ rnd.result \in {"null", "threw"}
        \/ /\ pc = "loop"
           /\ blockIdx <= Len(blocks)
           /\ blocks[blockIdx].type = "diagram"
           /\ ~asm.canRenderDiagrams)
       => /\ children' = Append(children, Element("code", blocks[blockIdx].content))
          /\ blockIdx' = blockIdx + 1
          /\ pc' = "loop"]_vars

\* The render of the first of several blocks threw and its literal paragraph
\* is the only element so far.
C5_Witness ==
    /\ pc = "loop"
    /\ blockIdx = 2
    /\ Len(blocks) >= 2
    /\ log # <<>>
    /\ log[Len(log)] = Event("render-end", 1, "threw")
    /\ children = <<Element("code", blocks[1].content)>>

\* C6: when rendering a diagram block succeeds, the assembler emits exactly
\* two consecutive elements for it: an image, immediately followed by a
\* hidden-text element whose text is encodeDiagramMarker(dialect, source) of
\* that block; the same marker is the image's alt-text description.
C6_RenderedGivesImageAndMarker ==
    [][(RenderReturned /\ rnd.result = "image")
       => /\ Len(children') = Len(children) + 2
          /\ SubSeq(children', 1, Len(children)) = children
          /\ children'[Len(children) + 1].kind = "image"
          /\ children'[Len(children) + 1].alt = MarkerOf(blockIdx)
          /\ children'[Len(children) + 2].kind = "hidden"
          /\ children'[Len(children) + 2].text = MarkerOf(blockIdx)]_vars

\* A diagram has just been rendered and its two elements pushed.
C6_Witness ==
    /\ pc = "loop"
    /\ blockIdx >= 2
    /\ log # <<>>
    /\ log[Len(log)] = Event("render-end", blockIdx - 1, "image")
    /\ Len(children) >= 2
    /\ children[Len(children) - 1].kind = "image"
    /\ children[Len(children)].kind = "hidden"
    /\ children[Len(children)].text = MarkerOf(blockIdx - 1)

\* markdownToDocx has left its try/finally statement.
AfterFinally == pc \in {"pack", "written", "threw"}

\* C7: a shared session launched by markdownToDocx is closed exactly once on
\* every path after the launch, after all blocks are processed and also when
\* block processing throws; never twice, never left open.
C7_SessionClosedExactlyOnce ==
    /\ sessions.doc.closes <= 1
    /\ (AfterFinally /\ sessions.doc.state # "none") =>
           (sessions.doc.state = "closed" /\ sessions.doc.closes = 1)

\* Block processing threw after the launch and the session was closed once.
C7_Witness ==
    /\ pc = "threw"
    /\ asm.error
    /\ sessions.doc.state = "closed"
    /\ sessions.doc.closes = 1

\* A session is acquired only for a document with a diagram block (so none
\* is launched for a document without one), before the first block is
\* processed; and no block is processed after its release.
SessionAcquireRules ==
    /\ sessions.doc.state # "none" => \E k \in 1..Len(blocks) : blocks[k].type = "diagram"
    /\ \A a, b \in 1..Len(log) :
        (log[a].e = "launch" /\ log[b].e = "block") => a < b
    /\ \A a, b \in 1..Len(log) :
        (log[a].e = "close" /\ log[b].e \in {"block", "render-start", "render-end"}) => b < a

\* C8: the assembler acquires a session only when the document has a diagram
\* block, before the first block is processed, and releases it only after
\* the last block has been processed; without a diagram block it never
\* launches a browser.
C8_ReleasedAfterLastBlock ==
    /\ SessionAcquireRules
    /\ sessions.doc.state = "closed" => blockIdx > Len(blocks)

\* C8, amended: ... and releases it only after block processing has ended,
\* that is after the last block or after the exception that ended the loop.
C8_ReleasedAfterProcessing ==
    /\ SessionAcquireRules
    /\ sessions.doc.state = "closed" => (blockIdx > Len(blocks) \/ asm.error)

\* A session was launched for several blocks and released after the last.
C8_Witness ==
    /\ sessions.doc.state = "closed"
    /\ ~asm.error
    /\ Len(blocks) >= 2
    /\ blockIdx > Len(blocks)

\* The elements whose content the block alone decides (a picture or its
\* placeholder depends on the file), without the sizes of images.
IsBlockDecided(el) == el.kind \notin {"picture", "placeholder"}

Unsized(els) == [k \in 1..Len(els) |-> [els[k] EXCEPT !.width = 0, !.height = 0]]

\* The elements the first n blocks are to give: the image and marker pair of a
\* rendered diagram, the literal paragraph of any other diagram.
RECURSIVE ExpectedElements(_)
ExpectedElements(n) ==
    IF n = 0 THEN <<>>
    ELSE ExpectedElements(n - 1) \o
         (IF blocks[n].type = "diagram" THEN
              IF Rendered(n)
              THEN <<[Element("image", "") EXCEPT !.alt = MarkerOf(n)],
                     Element("hidden", MarkerOf(n))>>
              ELSE <<Element("code", blocks[n].content)>>
          ELSE IF blocks[n].type = "image" THEN <<>>
          ELSE BlockElements(blocks[n], "missing"))

\* C10: with any subset of the diagrams failing to render, the conversion
\* goes on to its end and the output holds an image and marker pair for every
\* diagram that rendered and one literal paragraph for every diagram that
\* failed; a failure changes the elements of no other block, and no element
\* already produced is discarded.
C10_FailureIsolation ==
    /\ [](pc \in {"pack", "written"} =>
              Unsized(SelectSeq(children, IsBlockDecided)) = ExpectedElements(Len(blocks)))
    /\ [][pc # "scan" =>
              /\ Len(children') >= Len(children)
              /\ SubSeq(children', 1, Len(children)) = children]_vars
    /\ [][RenderReturned => (pc' = "loop" /\ blockIdx' = blockIdx + 1)]_vars

\* A document was written in which one diagram failed to render and a later
\* one rendered.
C10_Witness ==
    /\ pc = "written"
    /\ \E a, b \in 1..Len(blocks) : a < b /\ RenderFailed(a) /\ Rendered(b)

--------------------------------------------------------------------------
(* Properties of the round trip through the document *)

\* C2: for every diagram block whose render succeeded, assembling and then
\* reverse-assembling yields Markdown containing a fenced block whose language
\* is the block's dialect and whose body is the block's source exactly, also
\* for a source that ends in whitespace or blank lines.
C2_RoundTripExactBody ==
    pc = "reversed" =>
        \A k \in 1..Len(blocks) :
            Rendered(k) =>
                Includes(md.out, Fence \o blocks[k].diagramType \o "\n"
                                     \o blocks[k].content \o "\n" \o Fence)

--------------------------------------------------------------------------
(* Properties of the marker codec *)

\* The marker is a well-formed one: prefixed, its payload parses as JSON to an
\* object with a string type and a string code.
WellFormedMarker(marker) ==
    /\ StartsWith(marker, MarkerPrefix)
    /\ ~MarkerPayload(marker).threw
    /\ JsonField(MarkerPayload(marker).v, "type").k = "string"
    /\ JsonField(MarkerPayload(marker).v, "code").k = "string"

\* C3: for every dialect d and source s, decoding encodeDiagramMarker(d, s)
\* yields exactly the dialect d and the source s, no character of s added,
\* removed or changed.
C3_RoundTripExact ==
    (pc = "done" /\ codec.op = "roundtrip") =>
        /\ codec.out.ok
        /\ codec.out.type = codec.type
        /\ codec.out.code = codec.code
        /\ codec.block = "\n\n" \o Fence \o codec.type \o "\n" \o codec.code \o "\n"
                             \o Fence \o "\n\n"

\* C4: decoding never throws; it gives "not a marker" (the empty result) when
\* the string lacks the MDX_DIAGRAM: prefix, when the payload is not JSON after
\* base64 decoding, and when the parsed value is not an object with a string
\* type and a string code.
C4_DecodeNeverThrows ==
    pc = "done" =>
        /\ ~codec.out.threw
        /\ ~WellFormedMarker(codec.marker) => (~codec.out.ok /\ codec.block = "")

\* A prefixed marker whose payload fails to parse was decoded and gave the
\* empty result.
C4_Witness ==
    /\ pc = "done"
    /\ codec.op = "decode"
    /\ StartsWith(codec.marker, MarkerPrefix)
    /\ MarkerPayload(codec.marker).threw
    /\ codec.block = ""

--------------------------------------------------------------------------
(* Properties of the assembler without a browser session *)

\* The launch of the document's browser session was tried and failed.
LaunchFailed == \E e \in 1..Len(log) : log[e].e = "launch-failed"

\* The document has diagrams and the conversion got no session for them.
NoSessionObtained ==
    /\ pc \notin {"parse", "scan", "launch"}
    /\ asm.hasDiagrams
    /\ sessions.doc.state = "none"

\* With no session every diagram block is given as literal text.
AllDiagramsLiteral ==
    (NoSessionObtained /\ pc \in {"pack", "written"}) =>
        /\ \A k \in 1..Len(blocks) : ~Rendered(k)
        /\ \A k \in 1..Len(children) : children[k].kind \notin {"image", "hidden"}
        /\ Unsized(SelectSeq(children, IsBlockDecided)) = ExpectedElements(Len(blocks))

\* C11: if no browser session can be obtained for a document with diagrams
\* (no executable is found, or the launch fails), every diagram block is
\* emitted as literal text and the conversion raises no error because of it.
C11_NoSessionStillCompletes ==
    /\ AllDiagramsLiteral
    /\ LaunchFailed => pc # "threw"

--------------------------------------------------------------------------
(* Properties of the renderer's failures *)

\* The call of the renderer has ended (its finally clause has run).
RenderEnded == rnd.pc = "returned"

\* C12: renderDiagramToPngBuffer returns null, rather than raising an error,
\* when the diagram element never appears within the wait timeout and when
\* no browser session is available (none passed in, no executable found).
C12_NullOnTimeoutOrNoBrowser ==
    (RenderEnded /\ rnd.fail \in {"selector-timeout", "no-chrome"}) =>
        rnd.result = "null"

--------------------------------------------------------------------------
(* Properties of the bounded wait *)

\* The renderer waits, for block k of the document, for an element or an
\* image that never appears.
WaitingAt(k) == pc = "render" /\ rnd.pc = "wait" /\ blockIdx = k

\* The most diagram blocks a document of the inputs has.
MaxBlocks == 2 * MaxFragments

\* The conversion has ended: the document is written, or an error has left
\* markdownToDocx.
ConversionEnded == pc \in {"written", "threw"}

\* C13: if a diagram's element never appears (for PlantUML: or its image
\* never finishes loading), the render attempt ends in failure once the
\* bounded wait has expired, the diagram is emitted as literal text, the
\* failure itself raises no error in the conversion, and the conversion ends.
C13_BoundedWait ==
    /\ \A k \in 1..MaxBlocks :
           WaitingAt(k) ~> (/\ pc = "loop"
                            /\ blockIdx = k + 1
                            /\ RenderFailed(k)
                            /\ children[Len(children)] = Element("code", blocks[k].content))
    /\ (pc = "render" /\ rnd.pc = "wait") ~> ConversionEnded
    /\ [][(RenderReturned /\ rnd.fail \in TimedOutWaits) => (pc' = "loop" /\ ~asm'.error)]_vars

\* A wait for an image that never loads has lasted its whole timeout.
C13_Witness ==
    /\ pc = "render"
    /\ rnd.pc = "wait"
    /\ rnd.pending = "image-timeout"
    /\ rnd.waited >= WaitTimeout

--------------------------------------------------------------------------
(* Properties of the order of processing *)

\* The entries of the log with event e among its first n entries.
RECURSIVE CountEvents(_, _)
CountEvents(e, n) ==
    IF n = 0 THEN 0
    ELSE CountEvents(e, n - 1) + (IF log[n].e = e THEN 1 ELSE 0)

\* The blocks are taken in source order: the k-th block taken is block k.
BlocksInSourceOrder ==
    \A a \in 1..Len(log) : log[a].e = "block" => log[a].n = CountEvents("block", a)

\* A render starts only when every render started before it has returned,
\* and each render belongs to the block taken last.
RendersOneAtATime ==
    \A a \in 1..Len(log) :
        /\ log[a].e = "render-start" =>
               /\ CountEvents("render-start", a - 1) = CountEvents("render-end", a - 1)
               /\ log[a].n = CountEvents("block", a)
        /\ log[a].e = "render-end" =>
               /\ CountEvents("render-start", a) = CountEvents("render-end", a)
               /\ log[a].n = CountEvents("block", a)

\* C14: blocks are processed strictly in source order and the output
\* elements appear in the order of the blocks that produced them; the diagram
\* renders of a document run one at a time against the shared session, none
\* starting before the previous one has returned.
C14_SourceOrderAndSequentialRenders ==
    /\ [](BlocksInSourceOrder /\ RendersOneAtATime)
    /\ [](pc = "loop" =>
              Unsized(SelectSeq(children, IsBlockDecided)) = ExpectedElements(blockIdx - 1))
    /\ [][children' # children =>
              /\ pc \in {"loop", "render"}
              /\ SubSeq(children', 1, Len(children)) = children
              /\ blockIdx' = blockIdx + 1]_vars

\* Two diagrams of one document were rendered, the second after the first had
\* returned, with a block of text between them in the output.
C14_Witness ==
    /\ pc = "written"
    /\ \E a, b \in 1..Len(blocks) : a < b /\ Rendered(a) /\ Rendered(b)
    /\ \E k \in 1..Len(children) : children[k].kind \in {"paragraph", "heading"}

--------------------------------------------------------------------------
(* Properties of the paragraph rule *)

\* A non-blank line that carries no construct marker: no rule before the
\* paragraph rule takes it and the paragraph accumulator accepts it.
PlainLine(line) == ParagraphAccepts(line) /\ ~ImageMatch(line).ok

\* The parse of an input made of plain lines only has returned.
PlainTextParsed ==
    /\ task = "parse"
    /\ pc = "done"
    /\ lines # <<>>
    /\ \A k \in 1..Len(lines) : PlainLine(lines[k])

\* Lines a to b of the input, a single space between each two.
RECURSIVE SpaceJoined(_, _)
SpaceJoined(a, b) ==
    IF a = b THEN lines[a]
    ELSE SpaceJoined(a, (a + b) \div 2) \o " " \o SpaceJoined((a + b) \div 2 + 1, b)

OneParagraphOfAllLines ==
    /\ Len(blocks) = 1
    /\ blocks[1].type = "paragraph"
    /\ blocks[1].content = SpaceJoined(1, Len(lines))

\* C15: for every input consisting only of non-blank lines that carry no
\* construct marker, parseMarkdownBlocks returns exactly one block, of type
\* paragraph, whose content is the input lines joined with single spaces.
C15_PlainTextOneParagraph == PlainTextParsed => OneParagraphOfAllLines

\* C15, amended: ... for every such input of at most 1001 lines (the
\* accumulator stops after the line that brings it over 1000).
C15_PlainTextOneParagraphUpToCap ==
    (PlainTextParsed /\ Len(lines) <= ParagraphCap + 1) => OneParagraphOfAllLines

\* Three plain lines, not all the same, were parsed into one paragraph.
C15_Witness ==
    /\ PlainTextParsed
    /\ Len(lines) = 3
    /\ lines[1] # lines[2]
    /\ Len(blocks) = 1

--------------------------------------------------------------------------
(* Properties of the table rule *)

\* The input is a line with a pipe, then a separator row, then only lines
\* with pipes.
IsTableInput(ls) ==
    /\ Len(ls) >= 2
    /\ HasPipe(ls[1])
    /\ IsTableSeparator(Trim(ls[2]))
    /\ \A k \in 3..Len(ls) : HasPipe(ls[k])

\* A rule that comes before the table rule takes the line.
EarlierRuleTakes(line) ==
    \/ HeadingMatch(line).ok
    \/ IsRule(line)
    \/ IsFence(line)
    \/ IsQuote(line)
    \/ IsBullet(line)
    \/ IsNumbered(line)

\* The cells of a row: the line split at its pipes, each cell trimmed, without
\* the empty cell before a leading pipe and the one after a trailing pipe.
CellsOf(line) ==
    LET cells == Split(Trim(line), "|")
        first == IF StartsWith(Trim(line), "|") THEN 2 ELSE 1
        last == IF EndsWith(Trim(line), "|") THEN Len(cells) - 1 ELSE Len(cells)
    IN  [k \in 1..(last - first + 1) |-> Trim(cells[first + k - 1])]

\* One table block: the header's cells, then the cells of each line after the
\* separator row.
OneTableOfAllRows ==
    /\ Len(blocks) = 1
    /\ blocks[1].type = "table"
    /\ blocks[1].rows =
           [k \in 1..(Len(lines) - 1) |->
               IF k = 1 THEN CellsOf(lines[1]) ELSE CellsOf(lines[k + 1])]

TableInputParsed == task = "parse" /\ pc = "done" /\ IsTableInput(lines)

\* C16: a header line containing '|', immediately followed by a separator row
\* and then by n further lines containing '|', parses to exactly one table
\* block with n+1 rows: the header row first, the separator row absent, each
\* row the pipe-split cells, trimmed, without the empty cells caused by the
\* surrounding pipes.
C16_TableRows == TableInputParsed => OneTableOfAllRows

\* C16, amended: ... a header line containing '|' that none of the rules
\* before the table rule (heading, horizontal rule, fence, blockquote, list)
\* takes ...
C16_TableRowsOfUntakenHeader ==
    (TableInputParsed /\ ~EarlierRuleTakes(lines[1])) => OneTableOfAllRows

\* A header, a separator row with alignment colons and two rows were parsed.
C16_Witness ==
    /\ TableInputParsed
    /\ lines = <<"| Name | Score |", "| --- | :---: |", "| Alice | 10 |", "c|d">>
    /\ blocks[1].rows = <<(<<"Name", "Score">>), (<<"Alice", "10">>), (<<"c", "d">>)>>

--------------------------------------------------------------------------
(* Properties of a line with a pipe that starts no table *)

\* The line at 0-based index idx has a pipe, is followed by no separator row
\* (or is the last line), and no rule before the paragraph rule takes it.
PipeLineWithoutSeparator(idx) ==
    /\ HasPipe(lines[idx + 1])
    /\ ~(idx + 1 < Len(lines) /\ IsTableSeparator(Trim(lines[idx + 2])))
    /\ ~EarlierRuleTakes(lines[idx + 1])
    /\ ~ImageMatch(lines[idx + 1]).ok

\* C17: a line containing '|' whose next line is not a separator row (or
\* which is the last line) is not taken as a table: the iteration of the main
\* loop that starts at it runs the paragraph rule and the line's text is
\* emitted in a paragraph block.
C17_PipeLineBecomesParagraph ==
    \A k \in 1..Len(steps) :
        PipeLineWithoutSeparator(steps[k].from) =>
            /\ steps[k].rule = "paragraph"
            /\ \E b \in 1..Len(blocks) :
                   /\ blocks[b].type = "paragraph"
                   /\ Includes(blocks[b].content, lines[steps[k].from + 1])

--------------------------------------------------------------------------
(* Properties of the inline parser *)

\* The text a segment stands for, its delimiters restored.
SourceOf(seg) ==
    IF seg.type = "bold" THEN "**" \o seg.text \o "**"
    ELSE IF seg.type = "italic" THEN "*" \o seg.text \o "*"
    ELSE IF seg.type = "code" THEN Tick \o seg.text \o Tick
    ELSE IF seg.type = "link" THEN "[" \o seg.text \o "](" \o seg.href \o ")"
    ELSE seg.text

\* The first n segments re-joined.
RECURSIVE Rejoined(_, _)
Rejoined(segs, n) ==
    IF n = 0 THEN "" ELSE Rejoined(segs, n - 1) \o SourceOf(segs[n])

\* Where segment k starts in the input (1-based), the segments laid end to end.
StartOf(segs, k) == Len(Rejoined(segs, k - 1)) + 1

\* A styled segment sits where the pattern matches, and its kind is that of
\* its delimiters; no match starts inside a plain segment, a plain segment is
\* not empty and is not followed by another plain segment.
SegmentInPlace(text, segs, k) ==
    IF segs[k].type = "text" THEN
        /\ segs[k].text # ""
        /\ \A p \in StartOf(segs, k)..(StartOf(segs, k + 1) - 1) : MatchEnd(text, p) = 0
        /\ k < Len(segs) => segs[k + 1].type # "text"
    ELSE
        /\ segs[k].type \in {"bold", "italic", "code", "link"}
        /\ MatchEnd(text, StartOf(segs, k)) = StartOf(segs, k + 1)
        /\ segs[k].type = "bold" <=> BoldEnd(text, StartOf(segs, k)) # 0
        /\ segs[k].type = "link" <=> StartsWithAt(text, "[", StartOf(segs, k))
        /\ segs[k].type = "code" <=> StartsWithAt(text, Tick, StartOf(segs, k))

InlineReturned == task = "inline" /\ inl.pc = "done"

\* C18: parseInlineMarkdownSegments partitions its input left to right: the
\* styled segments are the non-overlapping matches of bold, italic, code and
\* link in order of position, every stretch of text before, between or after
\* the matches is a plain segment in its place, and the segments re-joined,
\* their delimiters restored, give the input exactly.
C18_SegmentsPartitionInput ==
    (InlineReturned /\ inl.text # "") =>
        /\ Rejoined(inl.result, Len(inl.result)) = inl.text
        /\ \A k \in 1..Len(inl.result) : SegmentInPlace(inl.text, inl.result, k)

\* A text with a link, a bold and a code token and plain text around them
\* was parsed.
C18_Witness ==
    /\ InlineReturned
    /\ inl.text = "[t](u) b**b**"
    /\ inl.result = <<Segment("link", "t", "u"), Segment("text", " b", ""),
                      Segment("bold", "b", "")>>

\* C19: parseInlineMarkdownSegments never returns an empty sequence: for
\* every input it returns at least one segment, and for the empty string
\* exactly one plain segment with empty text.
C19_AtLeastOneSegment ==
    InlineReturned =>
        /\ Len(inl.result) >= 1
        /\ inl.text = "" => inl.result = <<Segment("text", "", "")>>

\* The empty string was parsed.
C19_Witness ==
    /\ InlineReturned
    /\ inl.text = ""
    /\ inl.result = <<Segment("text", "", "")>>

--------------------------------------------------------------------------
(* Properties of the image probe *)

\* The number whose big-endian bytes are bs.
RECURSIVE BigEndian(_)
BigEndian(bs) ==
    IF bs = <<>> THEN 0
    ELSE BigEndian(SubSeq(bs, 1, Len(bs) - 1)) * 256 + bs[Len(bs)]

ProbeReturned == task = "probe" /\ probe.pc = "done"

\* C20: getImageDimensions returns none for every buffer shorter than 24
\* bytes, and for every buffer of at least 24 bytes that starts with the PNG
\* signature the width read as a big-endian 32-bit integer at offset 16 and
\* the height read at offset 20.
C20_PngDimensions ==
    ProbeReturned =>
        /\ Len(probe.buffer) < 24 => ~probe.result.ok
        /\ (Len(probe.buffer) >= 24 /\ SubSeq(probe.buffer, 1, 4) = <<137, 80, 78, 71>>) =>
               /\ probe.result.ok
               /\ probe.result.width = BigEndian(SubSeq(probe.buffer, 17, 20))
               /\ probe.result.height = BigEndian(SubSeq(probe.buffer, 21, 24))

\* A buffer of exactly 24 bytes with the PNG signature, width 320 and height
\* 180 was probed.
C20_Witness ==
    /\ ProbeReturned
    /\ Len(probe.buffer) = 24
    /\ SubSeq(probe.buffer, 1, 8) = <<137, 80, 78, 71, 13, 10, 26, 10>>
    /\ probe.result = Dimensions(320, 180)

\* The marker codes 0xC0..0xCF other than 0xC4, 0xC8 and 0xCC.
FrameCodes == {192, 193, 194, 195, 197, 198, 199, 201, 202, 203, 205, 206, 207}

\* The offset of the first frame segment of b met when the marker segments
\* are walked by their declared lengths from offset o on, its bytes up to the
\* width inside b; -1 if the walk meets none.
RECURSIVE FrameOffset(_, _)
FrameOffset(b, o) ==
    IF o + 3 >= Len(b) \/ b[o + 1] # 255 THEN -1
    ELSE IF b[o + 2] \in FrameCodes THEN (IF o + 8 < Len(b) THEN o ELSE -1)
    ELSE IF b[o + 3] * 256 + b[o + 4] < 2 THEN -1
    ELSE FrameOffset(b, o + 2 + b[o + 3] * 256 + b[o + 4])

JpegProbed ==
    /\ ProbeReturned
    /\ Len(probe.buffer) >= 24
    /\ SubSeq(probe.buffer, 1, 2) = <<255, 216>>

FrameDimensionsAt(o) ==
    /\ probe.result.ok
    /\ probe.result.height = probe.buffer[o + 6] * 256 + probe.buffer[o + 7]
    /\ probe.result.width = probe.buffer[o + 8] * 256 + probe.buffer[o + 9]

\* C21: for a buffer of at least 24 bytes starting with the JPEG
\* start-of-image marker, getImageDimensions returns the dimensions of the
\* first segment, met walking the segments by their declared lengths, whose
\* marker code is in 0xC0..0xCF other than 0xC4, 0xC8, 0xCC: height from the
\* two bytes at segment offset 5, width from the two bytes at offset 7.
C21_FirstFrameDimensions ==
    (JpegProbed /\ FrameOffset(probe.buffer, 2) >= 0) =>
        FrameDimensionsAt(FrameOffset(probe.buffer, 2))

--------------------------------------------------------------------------
(* Properties of the reverse assembly *)

\* How many times p occurs in s.
Occurrences(s, p) == Cardinality({k \in 1..Len(s) : StartsWithAt(s, p, k)})

RenderedDiagrams == {k \in 1..Len(blocks) : Rendered(k)}

\* C22: reverse assembly replaces the image/marker pair of one diagram by a
\* single fenced code block: the output holds exactly one fenced block (two
\* fence lines) per rendered diagram, not one per marker occurrence.
C22_OneFencedBlockPerDiagram ==
    pc = "reversed" =>
        Occurrences(md.out, Fence) = 2 * Cardinality(RenderedDiagrams)

\* C23: the Markdown returned by htmlToMarkdown never contains three or more
\* consecutive newline characters, also when diagram markers were found and
\* restored as fenced blocks.
C23_NoThreeNewlines ==
    pc = "reversed" => ~Includes(md.out, "\n\n\n")

--------------------------------------------------------------------------
(* Properties of the paragraph cap and of the order of the rules *)

\* C24: no paragraph block produced by parseMarkdownBlocks is built from more
\* than 1000 input lines.
C24_ParagraphAtMostCapLines ==
    \A k \in 1..Len(steps) :
        steps[k].rule = "paragraph" => steps[k].to - steps[k].from <= 1000

--------------------------------------------------------------------------
(* Properties of the image probe: unrecognized formats *)

\* The buffer begins with the eight bytes of the PNG signature.
HasPngSignature(b) == Len(b) >= 8 /\ SubSeq(b, 1, 8) = <<137, 80, 78, 71, 13, 10, 26, 10>>

\* The buffer begins with the JPEG start-of-image marker.
HasStartOfImage(b) == Len(b) >= 2 /\ SubSeq(b, 1, 2) = <<255, 216>>

\* C25: getImageDimensions returns none for every buffer that begins neither
\* with the full 8-byte PNG signature nor with the JPEG start-of-image
\* marker, even when its first four bytes are the start of the PNG signature.
C25_NoneForUnrecognized ==
    (ProbeReturned /\ ~HasPngSignature(probe.buffer) /\ ~HasStartOfImage(probe.buffer)) =>
        ~probe.result.ok

--------------------------------------------------------------------------
(* Properties of the fence rule *)

\* The first line of the input opens a fence and the iteration on it has run.
FenceParsed ==
    /\ task = "parse"
    /\ lines # <<>>
    /\ StartsWith(lines[1], Fence)
    /\ steps # <<>>

\* The language declared by the first line: the text after the opening
\* backticks, trimmed and lowercased.
DeclaredLanguage == ToLowerCase(Trim(SubSeq(lines[1], 4, Len(lines[1]))))

\* The index of the line that closes the fence opened by the first line, one
\* past the last line when none does.
FenceClose ==
    IF \E j \in 2..Len(lines) : StartsWith(lines[j], Fence)
    THEN CHOOSE j \in 2..Len(lines) :
             /\ StartsWith(lines[j], Fence)
             /\ \A h \in 2..(j - 1) : ~StartsWith(lines[h], Fence)
    ELSE Len(lines) + 1

\* Lines a to b of the input, a newline between each two; empty if a > b.
RECURSIVE NewlineJoined(_, _)
NewlineJoined(a, b) ==
    IF a > b THEN ""
    ELSE IF a = b THEN lines[a]
    ELSE lines[a] \o "\n" \o NewlineJoined(a + 1, b)

FencedContent == NewlineJoined(2, FenceClose - 1)

\* The content holds @startuml and, after it, @enduml.
StartThenEnd(content) ==
    \E a, b \in 1..Len(content) :
        /\ StartsWithAt(content, "@startuml", a)
        /\ StartsWithAt(content, "@enduml", b)
        /\ b > a + 8

\* C26: a fenced block is classified by its declared language and content:
\* language exactly 'mermaid' gives a diagram of dialect mermaid, whatever
\* the content; otherwise language 'plantuml' or 'uml', or content holding
\* @startuml followed later by @enduml, gives a diagram of dialect plantuml;
\* every other fence gives a code block that keeps the language. The content
\* is the fenced lines verbatim, joined by newlines.
C26_FenceClassification ==
    FenceParsed =>
        /\ steps[1].rule = "fence"
        /\ blocks[1].content = FencedContent
        /\ IF DeclaredLanguage = "mermaid"
           THEN blocks[1].type = "diagram" /\ blocks[1].diagramType = "mermaid"
           ELSE IF DeclaredLanguage \in {"plantuml", "uml"} \/ StartThenEnd(FencedContent)
           THEN blocks[1].type = "diagram" /\ blocks[1].diagramType = "plantuml"
           ELSE blocks[1].type = "code" /\ blocks[1].language = DeclaredLanguage

\* A fence declared "js" whose content holds @startuml and later @enduml was
\* parsed into a plantuml diagram.
C26_Witness ==
    /\ FenceParsed
    /\ DeclaredLanguage = "js"
    /\ FenceClose <= Len(lines)
    /\ StartThenEnd(FencedContent)
    /\ blocks[1].diagramType = "plantuml"

--------------------------------------------------------------------------
(* Properties of the order of the rules *)

\* The rules in the order in which an iteration tries them.
RuleOrder ==
    <<"heading", "hr", "fence", "blockquote", "ul", "ol", "table", "image", "paragraph",
      "blank">>

RuleIndex(rule) == CHOOSE r \in 1..Len(RuleOrder) : RuleOrder[r] = rule

\* A dash, star or plus followed by a whitespace character opens the line.
BulletLine(line) ==
    /\ Len(line) >= 2
    /\ \E c \in {"-", "*", "+"}, w \in {" ", "\t"} : StartsWith(line, c \o w)

\* The test of the rule on the line at index idx (0-based).
RuleTest(rule, idx) ==
    LET line == lines[idx + 1] IN
    CASE rule = "heading" -> HeadingMatch(line).ok
      [] rule = "hr" -> IsRule(line)
      [] rule = "fence" -> StartsWith(line, Fence)
      [] rule = "blockquote" -> StartsWith(line, ">")
      [] rule = "ul" -> BulletLine(line)
      [] rule = "ol" -> IsNumbered(line)
      [] rule = "table" ->
            /\ Includes(line, "|")
            /\ idx + 2 <= Len(lines)
            /\ IsTableSeparator(Trim(lines[idx + 2]))
      [] rule = "image" -> ImageMatch(line).ok
      [] rule = "paragraph" -> Trim(line) # ""
      [] rule = "blank" -> TRUE

\* C27: at each line the block kind is decided by the first rule that matches
\* in the order heading, rule, fence, blockquote, unordered list, ordered
\* list, table, image, paragraph: the rule an iteration applies matches its
\* line, and every rule before it in the order fails on that line.
C27_FirstMatchingRuleDecides ==
    \A k \in 1..Len(steps) :
        /\ RuleTest(steps[k].rule, steps[k].from)
        /\ \A e \in 1..(RuleIndex(steps[k].rule) - 1) : ~RuleTest(RuleOrder[e], steps[k].from)

\* A list line holding a pipe and followed by a line of three dashes was
\* taken as a list item, and the three dashes as a rule.
C27_Witness ==
    /\ Len(steps) >= 2
    /\ Includes(lines[1], "|")
    /\ lines[2] = "---"
    /\ steps[1].rule = "ul"
    /\ steps[2].rule = "hr"

--------------------------------------------------------------------------
(* Properties of scaleToMaxWidth *)

ScaleReturned == task = "scale" /\ scale.pc = "done"

\* n is an integer nearest to a / b: 2 * |n * b - a| <= b.
NearestTo(n, a, b) == 2 * (n * b - a) <= b /\ 2 * (a - n * b) <= b

\* C28: scaleToMaxWidth only shrinks: for width <= maxWidth it returns the
\* width and height unchanged; for width > maxWidth it returns width equal to
\* maxWidth and height equal to height * maxWidth / width rounded to the
\* nearest integer, so the result width never exceeds maxWidth.
C28_OnlyShrinks ==
    ScaleReturned =>
        /\ scale.width <= scale.maxWidth =>
               scale.result = [width |-> scale.width, height |-> scale.height]
        /\ scale.width > scale.maxWidth =>
               /\ scale.result.width = scale.maxWidth
               /\ NearestTo(scale.result.height, scale.height * scale.maxWidth, scale.width)
        /\ scale.result.width <= scale.maxWidth
        /\ scale.result.width <= scale.width
        /\ scale.result.height <= scale.height

\* An 800 x 401 image was scaled to 600 x 301.
C28_Witness ==
    /\ ScaleReturned
    /\ scale.width = 800 /\ scale.height = 401 /\ scale.maxWidth = 600
    /\ scale.result = [width |-> 600, height |-> 301]

--------------------------------------------------------------------------
(* Properties of the renderer: re-rendering *)

\* The box with 8px on each side does not fit 1600 x 1200.
TooLarge(box) == box.w + 16 > 1600 \/ box.h + 16 > 1200

\* C29: within one render the page content is loaded at most twice: a second
\* load (at a viewport of the measured box plus 8px padding on each side)
\* happens only when the first measured box plus padding exceeds 1600 in
\* width or 1200 in height, and the box measured after the second load is
\* used without any further re-render.
C29_AtMostOneReload ==
    /\ rnd.loads <= 2
    /\ Len(rnd.measured) <= rnd.loads
    /\ rnd.loads = 2 =>
           /\ rnd.measured # <<>>
           /\ rnd.measured[1].ok
           /\ TooLarge(rnd.measured[1])
           /\ rnd.viewport = [width |-> rnd.measured[1].w + 16,
                              height |-> rnd.measured[1].h + 16]
    /\ rnd.result = "image" =>
           /\ rnd.measured # <<>>
           /\ rnd.width = rnd.measured[Len(rnd.measured)].w + 16
           /\ rnd.height = rnd.measured[Len(rnd.measured)].h + 16

\* A render measured a box too wide for the base viewport, loaded again and
\* returned the image of a different box measured after the second load.
C29_Witness ==
    /\ task = "render"
    /\ rnd.loads = 2
    /\ rnd.result = "image"
    /\ Len(rnd.measured) = 2
    /\ rnd.measured[1] # rnd.measured[2]
    /\ rnd.measured[1].w + 16 > 1600

--------------------------------------------------------------------------
(* Properties of the main loop of the block parser *)

\* The lines (1-based) consumed by iteration k.
LinesOfStep(k) == (steps[k].from + 1)..steps[k].to

\* The iterations that pushed a block, in their order.
PushingSteps == {k \in 1..Len(steps) : steps[k].rule # "blank" /\ LinesOfStep(k) # {}}

\* C30: every input line is consumed by exactly one step of
\* parseMarkdownBlocks and contributes to at most one block: each iteration
\* starts where the one before it ended and consumes at least its own line,
\* so the line index never moves backwards and no line is visited by two
\* rules, and the blocks are emitted one per consuming rule in source order.
C30_EachLineInOneStep ==
    task = "parse" =>
        /\ steps # <<>> => steps[1].from = 0
        /\ \A k \in 1..(Len(steps) - 1) : steps[k + 1].from = steps[k].to
        /\ \A n \in 1..Len(lines) :
               (steps # <<>> /\ n <= steps[Len(steps)].from + 1) =>
                   Cardinality({k \in 1..Len(steps) : n \in LinesOfStep(k)}) = 1
        /\ Len(blocks) = Cardinality(PushingSteps)

====
